---- MODULE Spec2Model ----
(***************************************************************************)
(* A model of the AI task assistant: the natural-language command          *)
(* interpreter (src/nlp_processor.py) and the command dispatch of the      *)
(* assistant (src/task_assistant.py).                                      *)
(*                                                                         *)
(* Text is a TLA+ string; a character is a string of length one.  Regular  *)
(* expressions of the source are data (sequences of items) run by a        *)
(* backtracking matcher with Python's greedy, leftmost semantics.          *)
(***************************************************************************)
EXTENDS Integers, Sequences, FiniteSets, TLC

VARIABLES
    today,             \* the anchor date, what datetime.now() returns: [y, m, d]
    ticks,             \* number of midnights passed since the start
    command_patterns,  \* NLPProcessor.command_patterns, the ordered pattern table
    pc,                \* "idle" | "called": a parse_command call is pending
    user_input,        \* the argument of the pending or last parse_command call
    result,            \* outcome of the last call: a returned Command or a raise
    via,               \* which branch produced the result: pattern | inference | unknown | raise
    anchor,            \* the date the last call was parsed on
    prev,              \* the call before the last one: [input, today, result]
    tasks,             \* VectorMemory.tasks of the assistant: sequence of task records
    next_uuid,         \* source of fresh task ids (uuid.uuid4)
    response,          \* what process_command did last: [handler, listed]
    store_file,        \* the tasks in task_metadata_<user>.pkl, <<>> while there is no file
    timers,            \* the task lists of the memory instances whose save timer is pending
    web,               \* the last answer of a task route: [route, status, tasks]
    acked,             \* what the successful answers told the client: [live, deleted]
    login_log,         \* the login attempts so far: [username, status]
    sessions,          \* the sessions table: set of [session_id, username]
    users,             \* the users table: set of [username, email, password_hash]
    cache,             \* UserManager.sessions, the sessions kept in memory
    calls,             \* the register_user calls of the threads: [at, data, success, error]
    drawn,             \* how many session tokens have been drawn
    memory,            \* one VectorMemory instance: its task objects, lists and timer
    disk,              \* what the instance has written last: [tasks, index], or NoFile
    mutations          \* how many add, update, complete and delete calls have run

\* the state of the web application
\* the state of the user manager beside its two tables
umvars == <<cache, calls, drawn>>

\* the state of a single memory instance and its files
memvars == <<memory, disk, mutations>>

webvars == <<store_file, timers, web, acked, login_log, sessions, users, cache, calls, drawn,
             memory, disk, mutations>>

\* the state of the interpreter and of the command-line assistant
nlpvars == <<today, ticks, command_patterns, pc, user_input, result, via, anchor, prev,
             tasks, response>>

vars == <<today, ticks, command_patterns, pc, user_input, result, via, anchor, prev,
          tasks, next_uuid, response,
          store_file, timers, web, acked, login_log, sessions, users, cache, calls, drawn,
          memory, disk, mutations>>

-----------------------------------------------------------------------------
(* Characters *)

UpperChars == "ABCDEFGHIJKLMNOPQRSTUVWXYZ"
LowerChars == "abcdefghijklmnopqrstuvwxyz"
DigitChars == "0123456789"

CharsOf(s) == {SubSeq(s, i, i) : i \in 1..Len(s)}

UpperSet == CharsOf(UpperChars)
DigitSet == CharsOf(DigitChars)
WordSet  == CharsOf(UpperChars) \cup CharsOf(LowerChars) \cup DigitSet \cup {"_"}
SpaceSet == {" ", "\t", "\n", "\r"}
QuoteSet == {"\"", "'"}

At(s, i) == SubSeq(s, i, i)

IndexIn(c, s) == CHOOSE i \in 1..Len(s) : At(s, i) = c

\* str.lower() on one character
LowerChar(c) == IF c \in UpperSet THEN At(LowerChars, IndexIn(c, UpperChars)) ELSE c

RECURSIVE LowerRange(_, _, _)
\* the characters i..j of s in lower case (halving keeps the nesting shallow)
LowerRange(s, i, j) ==
    IF i > j THEN ""
    ELSE IF i = j THEN LowerChar(At(s, i))
    ELSE LET mid == (i + j) \div 2
         IN  LowerRange(s, i, mid) \o LowerRange(s, mid + 1, j)

\* str.lower()
Lower(s) ==
    IF \A i \in 1..Len(s) : At(s, i) \notin UpperSet THEN s ELSE LowerRange(s, 1, Len(s))

Min(S) == CHOOSE x \in S : \A y \in S : x <= y
Max(S) == CHOOSE x \in S : \A y \in S : x >= y
\* a value computed once and read under one name: F of v
Bind(v, F(_)) == F(v)

\* the first position >= i that holds no whitespace, Len(s) + 1 if none
FirstNonSpace(s, i) ==
    Min({k \in i..Len(s) : At(s, k) \notin SpaceSet} \cup {IF i > Len(s) THEN i ELSE Len(s) + 1})

\* the last position <= i that holds no whitespace, 0 if none
LastNonSpace(s, i) == Max({k \in 1..i : At(s, k) \notin SpaceSet} \cup {0})

\* str.lstrip()
StripLeading(s) == SubSeq(s, FirstNonSpace(s, 1), Len(s))

\* str.strip()
Strip(s) == SubSeq(s, FirstNonSpace(s, 1), LastNonSpace(s, Len(s)))

\* Python's  kw in text  on strings
Contains(text, kw) ==
    \E i \in 1..(Len(text) - Len(kw) + 1) : SubSeq(text, i, i + Len(kw) - 1) = kw

\* any(word in text for word in words)
AnyIn(text, words) == \E k \in 1..Len(words) : Contains(text, words[k])

-----------------------------------------------------------------------------
(* Regular expressions.  An item is one of                                 *)
(*   <<"lit", s>>            the literal s                                 *)
(*   <<"rep", cls, lo, hi>>  lo..hi characters of class cls (hi = 0: any   *)
(*                           number), greedy                               *)
(*   <<"cap", cls, lo, hi>>  the same as a capturing group                 *)
(*   <<"opt", pattern>>      (?: pattern )?                                *)
(*   <<"alt", words, cap>>   (w1|w2|...), capturing iff cap                *)
(*   <<"or", patterns>>      (?:p1|p2|...) of sub-patterns                 *)
(*   <<"wb">>                \b                                            *)

InClass(cls, c) ==
    CASE cls = "digit"      -> c \in DigitSet
      [] cls = "word"       -> c \in WordSet
      [] cls = "space"      -> c \in SpaceSet
      [] cls = "nonspace"   -> c \notin SpaceSet
      [] cls = "any"        -> c # "\n"
      [] cls = "notquote"   -> c \notin QuoteSet
      [] cls = "quote"      -> c \in QuoteSet
      [] cls = "notcomma"   -> c # ","
      [] cls = "colonspace" -> c = ":" \/ c \in SpaceSet
      [] cls = "slashdash"  -> c \in {"/", "-"}

\* \s+
WS == <<"rep", "space", 1, 0>>
\* ["\']
Q == <<"rep", "quote", 1, 1>>
\* (?:w\s+)?
OptWord(w) == <<"opt", <<  <<"lit", w>>, WS >> >>

\* how many characters of class cls start at pos, at most hi when hi > 0
RunLen(text, pos, cls, hi) ==
    LET last == IF hi = 0 \/ pos + hi - 1 > Len(text) THEN Len(text) ELSE pos + hi - 1
        stops == {i \in pos..last : ~InClass(cls, At(text, i))}
    IN  IF pos > Len(text) THEN 0
        ELSE IF stops = {} THEN last - pos + 1
        ELSE Min(stops) - pos

IsWordAt(text, i) == i >= 1 /\ i <= Len(text) /\ At(text, i) \in WordSet

\* \b between position pos-1 and pos
Boundary(text, pos) == IsWordAt(text, pos - 1) # IsWordAt(text, pos)

NoMatch == [ok |-> FALSE, start |-> 0, end |-> 0, groups |-> <<>>]

RECURSIVE MatchAt(_, _, _, _, _, _)
RECURSIVE TryLen(_, _, _, _, _, _, _)
RECURSIVE TryAlt(_, _, _, _, _, _, _)
RECURSIVE TryOr(_, _, _, _, _, _, _)

\* match pat[k..] at pos; cmp is the text compared (case-folded when the flag
\* re.IGNORECASE is set), text the one the groups are cut from
MatchAt(pat, k, text, cmp, pos, groups) ==
    IF k > Len(pat) THEN [ok |-> TRUE, start |-> 0, end |-> pos, groups |-> groups]
    ELSE LET it == pat[k] IN
      CASE it[1] = "lit" ->
             IF /\ pos + Len(it[2]) - 1 <= Len(cmp)
                /\ SubSeq(cmp, pos, pos + Len(it[2]) - 1) = it[2]
             THEN MatchAt(pat, k + 1, text, cmp, pos + Len(it[2]), groups)
             ELSE NoMatch
        [] it[1] = "wb" ->
             IF Boundary(cmp, pos) THEN MatchAt(pat, k + 1, text, cmp, pos, groups)
             ELSE NoMatch
        [] it[1] = "opt" ->
             LET with == MatchAt(it[2] \o SubSeq(pat, k + 1, Len(pat)), 1,
                                 text, cmp, pos, groups)
             IN  IF with.ok THEN with
                 ELSE MatchAt(pat, k + 1, text, cmp, pos, groups)
        [] it[1] = "alt" -> TryAlt(pat, k, text, cmp, pos, groups, 1)
        [] it[1] = "or" -> TryOr(pat, k, text, cmp, pos, groups, 1)
        [] it[1] \in {"rep", "cap"} ->
             TryLen(pat, k, text, cmp, pos, groups, RunLen(cmp, pos, it[2], it[4]))

\* greedy repetition: the longest run first, then shorter ones
TryLen(pat, k, text, cmp, pos, groups, n) ==
    LET it == pat[k] IN
    IF n < it[3] THEN NoMatch
    ELSE LET g == IF it[1] = "cap"
                  THEN Append(groups, SubSeq(text, pos, pos + n - 1))
                  ELSE groups
             r == MatchAt(pat, k + 1, text, cmp, pos + n, g)
         IN  IF r.ok THEN r ELSE TryLen(pat, k, text, cmp, pos, groups, n - 1)

\* alternation: the alternatives in written order
TryAlt(pat, k, text, cmp, pos, groups, a) ==
    LET it == pat[k] IN
    IF a > Len(it[2]) THEN NoMatch
    ELSE LET w == it[2][a]
             hit == /\ pos + Len(w) - 1 <= Len(cmp)
                    /\ SubSeq(cmp, pos, pos + Len(w) - 1) = w
             g == IF it[3] THEN Append(groups, SubSeq(text, pos, pos + Len(w) - 1))
                  ELSE groups
             r == IF hit THEN MatchAt(pat, k + 1, text, cmp, pos + Len(w), g)
                  ELSE NoMatch
         IN  IF r.ok THEN r ELSE TryAlt(pat, k, text, cmp, pos, groups, a + 1)

\* non-capturing alternation of sub-patterns, in written order
TryOr(pat, k, text, cmp, pos, groups, a) ==
    LET it == pat[k] IN
    IF a > Len(it[2]) THEN NoMatch
    ELSE LET r == MatchAt(it[2][a] \o SubSeq(pat, k + 1, Len(pat)), 1,
                          text, cmp, pos, groups)
         IN  IF r.ok THEN r ELSE TryOr(pat, k, text, cmp, pos, groups, a + 1)

\* can pat start at pos at all: its first item against the character there
MayStart(pat, cmp, pos) ==
    CASE pat[1][1] = "lit" -> pos <= Len(cmp) /\ At(cmp, pos) = At(pat[1][2], 1)
      [] pat[1][1] = "wb" ->
            /\ Len(pat) > 1 /\ pat[2][1] = "lit"
                  => pos <= Len(cmp) /\ At(cmp, pos) = At(pat[2][2], 1)
            /\ Boundary(cmp, pos)
      [] pat[1][1] \in {"rep", "cap"} -> pos <= Len(cmp) /\ InClass(pat[1][2], At(cmp, pos))
      [] OTHER -> TRUE

\* the match at the leftmost position at which pat matches
SearchFrom(pat, text, cmp) ==
    Bind({pos \in 1..(Len(text) + 1) :
             MayStart(pat, cmp, pos) /\ MatchAt(pat, 1, text, cmp, pos, <<>>).ok},
         LAMBDA starts :
             IF starts = {} THEN NoMatch
             ELSE Bind(Min(starts), LAMBDA first :
                      [MatchAt(pat, 1, text, cmp, first, <<>>) EXCEPT !.start = first]))

\* re.search(pat, text, re.IGNORECASE): the literals of the model's patterns
\* are written in lower case
SearchI(pat, text) == SearchFrom(pat, text, Lower(text))

\* re.search(pat, lowered, re.IGNORECASE) on a text that is already lower case:
\* its case-folded copy is the text itself
SearchLowered(pat, lowered) == SearchFrom(pat, lowered, lowered)

\* re.search(pat, text)
SearchS(pat, text) == SearchFrom(pat, text, text)

-----------------------------------------------------------------------------
(* The pattern table, src/nlp_processor.py lines 9-68.  Each entry is a    *)
(* command type with its patterns in declared order.                       *)

Lit(s) == <<"lit", s>>
\* ([^"\']+)
CapNQ == <<"cap", "notquote", 1, 0>>
\* (\d+)
CapNum == <<"cap", "digit", 1, 0>>
\* (\w+)
CapWord == <<"cap", "word", 1, 0>>
\* (.+)
CapRest == <<"cap", "any", 1, 0>>

\* verb\s+task\s+(\d+)\s+prep\s+(\w+)
TaskNumTo(verb, prep) ==
    << verb, WS, Lit("task"), WS, CapNum, WS, Lit(prep), WS, CapWord >>
\* verb\s+(\d+)\s+prep\s+(\w+)
NumTo(verb, prep) == << Lit(verb), WS, CapNum, WS, Lit(prep), WS, CapWord >>
\* verb\s+(\d+)\s+priority\s+prep\s+(\w+)
NumPriorityTo(verb, prep) ==
    << Lit(verb), WS, CapNum, WS, Lit("priority"), WS, Lit(prep), WS, CapWord >>
\* verb\s+task\s+(\d+)
TaskNum(verb) == << Lit(verb), WS, Lit("task"), WS, CapNum >>

InitialPatterns == <<
  [type |-> "add_task", patterns |-> <<
     << Lit("add"), WS, OptWord("a"), OptWord("new"), Lit("task"), WS,
        OptWord("called"), Q, CapNQ, Q >>,
     << Lit("create"), WS, OptWord("a"), OptWord("new"), Lit("task"), WS,
        OptWord("called"), Q, CapNQ, Q >>,
     << Lit("new"), WS, Lit("task"), WS, OptWord("called"), Q, CapNQ, Q >>,
     << Lit("add"), WS, Q, CapNQ, Q, WS, Lit("to"), WS, Lit("my"), WS, Lit("tasks") >>,
     << Lit("add"), WS, OptWord("a"), Lit("task"), WS, OptWord("about"), CapRest >>,
     << Lit("create"), WS, OptWord("a"), Lit("task"), WS, OptWord("about"), CapRest >>
  >>],
  [type |-> "search_tasks", patterns |-> <<
     << Lit("search"), WS, OptWord("for"), Q, CapNQ, Q >>,
     << Lit("find"), WS, OptWord("tasks"), OptWord("about"), Q, CapNQ, Q >>,
     << Lit("look"), WS, Lit("for"), WS, OptWord("tasks"), OptWord("about"), Q, CapNQ, Q >>,
     << Lit("show"), WS, Lit("me"), WS, OptWord("tasks"), OptWord("about"), Q, CapNQ, Q >>,
     << Lit("search"), WS, OptWord("for"), CapRest >>,
     << Lit("find"), WS, OptWord("tasks"), OptWord("about"), CapRest >>
  >>],
  [type |-> "list_tasks", patterns |-> <<
     << Lit("list"), WS, OptWord("all"), Lit("tasks") >>,
     << Lit("show"), WS, OptWord("all"), Lit("tasks") >>,
     << Lit("display"), WS, OptWord("all"), Lit("tasks") >>,
     << Lit("what"), WS, Lit("tasks"), WS, Lit("do"), WS, Lit("i"), WS, Lit("have") >>,
     << Lit("my"), WS, Lit("tasks") >>,
     << Lit("all"), WS, Lit("tasks") >>
  >>],
  [type |-> "update_task", patterns |-> <<
     TaskNumTo(<<"alt", <<"mark", "set">>, FALSE>>, "as"),
     TaskNumTo(Lit("update"), "to"),
     TaskNumTo(Lit("change"), "to"),
     << Lit("task"), WS, CapNum, WS, Lit("is"), WS, Lit("now"), WS, CapWord >>,
     NumTo("mark", "as"),
     TaskNum("complete"),
     TaskNum("finish"),
     NumTo("update", "to"),
     NumTo("change", "to"),
     NumTo("set", "to"),
     TaskNumTo(Lit("mark"), "as"),
     TaskNumTo(Lit("set"), "to"),
     NumPriorityTo("change", "to"),
     NumPriorityTo("update", "to"),
     NumPriorityTo("set", "to"),
     NumPriorityTo("mark", "as")
  >>],
  [type |-> "delete_task", patterns |-> <<
     TaskNum("delete"),
     TaskNum("remove"),
     TaskNum("cancel"),
     TaskNum("drop"),
     << Lit("delete"), WS, CapNum >>,
     << Lit("remove"), WS, CapNum >>
  >>],
  [type |-> "show_stats", patterns |-> <<
     << Lit("show"), WS, OptWord("task"), Lit("statistics") >>,
     << Lit("display"), WS, OptWord("task"), Lit("stats") >>,
     << Lit("what"), WS, Lit("are"), WS, Lit("my"), WS, Lit("task"), WS, Lit("stats") >>,
     << Lit("give"), WS, Lit("me"), WS, Lit("a"), WS, Lit("summary") >>,
     << Lit("stats") >>,
     << Lit("statistics") >>
  >>]
>>

-----------------------------------------------------------------------------
(* Dates: datetime.now(), timedelta and replace as _parse_due_date uses    *)
(* them.  A date is [y, m, d]; arithmetic goes through the proleptic       *)
(* Gregorian ordinal, as Python's datetime does.                           *)

\* datetime.MAXYEAR
MAXYEAR == 9999
\* the largest timedelta(days=...) Python accepts
MaxDeltaDays == 999999999

IsLeap(y) == y % 4 = 0 /\ (y % 100 # 0 \/ y % 400 = 0)

DaysInMonth(y, m) ==
    IF m = 2 THEN (IF IsLeap(y) THEN 29 ELSE 28)
    ELSE IF m \in {4, 6, 9, 11} THEN 30 ELSE 31

RECURSIVE DaysBeforeMonth(_, _)
DaysBeforeMonth(y, m) ==
    IF m = 1 THEN 0 ELSE DaysBeforeMonth(y, m - 1) + DaysInMonth(y, m - 1)

DaysBeforeYear(y) ==
    (y - 1) * 365 + (y - 1) \div 4 - (y - 1) \div 100 + (y - 1) \div 400

\* date.toordinal()
ToOrdinal(dt) == DaysBeforeYear(dt.y) + DaysBeforeMonth(dt.y, dt.m) + dt.d

RECURSIVE MonthOfDay(_, _, _)
\* the month holding day n (1-based) of year y, and the day in it
MonthOfDay(y, m, n) ==
    IF n <= DaysInMonth(y, m) THEN [y |-> y, m |-> m, d |-> n]
    ELSE MonthOfDay(y, m + 1, n - DaysInMonth(y, m))

\* date.fromordinal(n)
FromOrdinal(n) ==
    LET n0   == n - 1
        n400 == n0 \div 146097
        r400 == n0 % 146097
        n100 == r400 \div 36524
        r100 == r400 % 36524
        n4   == r100 \div 1461
        r4   == r100 % 1461
        n1   == r4 \div 365
        r1   == r4 % 365
        year == n400 * 400 + 1 + n100 * 100 + n4 * 4 + n1
    IN  IF n1 = 4 \/ n100 = 4 THEN [y |-> year - 1, m |-> 12, d |-> 31]
        ELSE MonthOfDay(year, 1, r1 + 1)

\* ordinal of 9999-12-31
MaxOrdinal == DaysBeforeYear(MAXYEAR + 1)

\* is [y, m, d] a date datetime accepts
ValidDate(y, m, d) ==
    /\ y >= 1 /\ y <= MAXYEAR
    /\ m >= 1 /\ m <= 12
    /\ d >= 1 /\ d <= DaysInMonth(y, m)

\* datetime.weekday(): Monday is 0
Weekday(dt) == (ToOrdinal(dt) + 6) % 7

\* results of a step that may raise: [exc |-> "" | exception name, v |-> value]
Ok(v) == [exc |-> "", v |-> v]
Raise(e) == [exc |-> e, v |-> ""]

\* dt + timedelta(days=n), n of either sign
AddDays(dt, n) ==
    IF n > MaxDeltaDays \/ n < -MaxDeltaDays THEN Raise("OverflowError")
    ELSE LET o == ToOrdinal(dt) + n
         IN  IF o < 1 \/ o > MaxOrdinal THEN Raise("OverflowError")
             ELSE Ok(FromOrdinal(o))

\* dt.replace(year=y, month=m, day=d)
Replace(y, m, d) ==
    IF ValidDate(y, m, d) THEN Ok([y |-> y, m |-> m, d |-> d]) ELSE Raise("ValueError")

RECURSIVE IntToStr(_)
\* str(n) for n >= 0
IntToStr(n) ==
    IF n < 10 THEN At(DigitChars, n + 1)
    ELSE IntToStr(n \div 10) \o At(DigitChars, (n % 10) + 1)

AllDigits(s) == \A i \in 1..Len(s) : At(s, i) \in DigitSet

RECURSIVE StrToIntFrom(_, _, _)
StrToIntFrom(s, i, acc) ==
    IF i > Len(s) THEN acc
    ELSE StrToIntFrom(s, i + 1, acc * 10 + IndexIn(At(s, i), DigitChars) - 1)

\* int(s) for a string of decimal digits
StrToInt(s) == StrToIntFrom(s, 1, 0)

RECURSIVE ZFill(_, _)
\* str.zfill(w)
ZFill(s, w) == IF Len(s) >= w THEN s ELSE ZFill("0" \o s, w)

\* dt.strftime('%Y-%m-%d')
Strftime(dt) ==
    ZFill(IntToStr(dt.y), 4) \o "-" \o ZFill(IntToStr(dt.m), 2) \o "-" \o ZFill(IntToStr(dt.d), 2)

\* (dt + timedelta(days=n)).strftime('%Y-%m-%d'), the exception passed on
FmtPlus(dt, n) ==
    LET r == AddDays(dt, n) IN IF r.exc # "" THEN r ELSE Ok(Strftime(r.v))

-----------------------------------------------------------------------------
(* Due dates: NLPProcessor._parse_due_date, an if/elif chain of            *)
(* re.search tests on the lower-cased text.                                *)

\* Python's None where a string may stand
None == "<None>"
\* Python's truth test of an Optional[str]
Truthy(v) == v # None /\ v # ""

\* r, or what F makes of its value when r did not raise
Then(r, F(_)) == IF r.exc # "" THEN r ELSE F(r.v)

WB == <<"wb">>
\* \bw\b
Word1(w) == << WB, Lit(w), WB >>
\* \ba\s+b\b
Word2(a, b) == << WB, Lit(a), WS, Lit(b), WB >>
\* \ba\s+b\s+c\b
Word3(a, b, c) == << WB, Lit(a), WS, Lit(b), WS, Lit(c), WB >>

DayNames == <<"monday", "tuesday", "wednesday", "thursday", "friday", "saturday", "sunday">>
MonthNames == <<"january", "february", "march", "april", "may", "june", "july",
                "august", "september", "october", "november", "december">>

\* \bin\s+(\d+)\s+units?\b
InN(unit) == << WB, Lit("in"), WS, CapNum, WS, Lit(unit), <<"opt", <<Lit("s")>> >>, WB >>

\* the tests of the chain in source order, each with the branch it selects
DueRules == <<
    [pat |-> Word1("today"),             rule |-> "today"],
    [pat |-> Word1("tomorrow"),          rule |-> "tomorrow"],
    [pat |-> Word1("yesterday"),         rule |-> "yesterday"],
    [pat |-> Word2("this", "morning"),   rule |-> "today"],
    [pat |-> Word2("this", "afternoon"), rule |-> "today"],
    [pat |-> Word2("this", "evening"),   rule |-> "today"],
    [pat |-> Word1("tonight"),           rule |-> "today"],
    [pat |-> Word2("this", "week"),      rule |-> "this_week"],
    [pat |-> Word2("next", "week"),      rule |-> "next_week"],
    [pat |-> Word2("last", "week"),      rule |-> "last_week"],
    [pat |-> Word2("this", "month"),     rule |-> "this_month"],
    [pat |-> Word2("next", "month"),     rule |-> "next_month"],
    [pat |-> Word2("last", "month"),     rule |-> "last_month"],
    [pat |-> Word3("end", "of", "month"), rule |-> "this_month"],
    [pat |-> Word3("end", "of", "week"), rule |-> "this_week"],
    [pat |-> Word3("end", "of", "year"), rule |-> "end_of_year"],
    [pat |-> << WB, Lit("next"), WS, <<"alt", DayNames, TRUE>>, WB >>, rule |-> "next_day"],
    [pat |-> << WB, Lit("this"), WS, <<"alt", DayNames, TRUE>>, WB >>, rule |-> "this_day"],
    [pat |-> InN("day"),                 rule |-> "in_days"],
    [pat |-> InN("week"),                rule |-> "in_weeks"],
    [pat |-> InN("month"),               rule |-> "in_months"],
    [pat |-> << WB, <<"cap", "digit", 1, 2>>, <<"rep", "slashdash", 1, 1>>,
                <<"cap", "digit", 1, 2>>, <<"rep", "slashdash", 1, 1>>,
                <<"cap", "digit", 2, 4>>, WB >>, rule |-> "numeric"],
    [pat |-> << WB, <<"alt", MonthNames, TRUE>>, WS, <<"cap", "digit", 1, 2>>, WB >>,
                                         rule |-> "month_name"]
>>

\* day_map.get(day_name.lower(), 0), months.get(month_name.lower(), 1) - 1
IndexOfName(name, names) ==
    IF \E i \in 1..Len(names) : names[i] = Lower(name)
    THEN (CHOOSE i \in 1..Len(names) : names[i] = Lower(name)) - 1
    ELSE 0

\* the next occurrence with the anchor day itself counted as one
GetNextWeekdayOrToday(day_name, now) ==
    LET days_ahead == IndexOfName(day_name, DayNames) - Weekday(now)
    IN  FmtPlus(now, IF days_ahead < 0 THEN days_ahead + 7 ELSE days_ahead)

\* NLPProcessor._get_next_weekday
GetNextWeekday(day_name, now) ==
    LET days_ahead == IndexOfName(day_name, DayNames) - Weekday(now)
    IN  FmtPlus(now, IF days_ahead <= 0 THEN days_ahead + 7 ELSE days_ahead)

\* NLPProcessor._get_this_weekday
GetThisWeekday(day_name, now) ==
    LET days_ahead == IndexOfName(day_name, DayNames) - Weekday(now)
    IN  IF days_ahead < 0 THEN Ok(None) ELSE FmtPlus(now, days_ahead)

\* NLPProcessor._month_name_to_number
MonthNameToNumber(month_name) == IndexOfName(month_name, MonthNames) + 1

\* the first of the month that holds the day 30 days after the first
FirstOfNextMonthBy30(now) ==
    Then(Replace(now.y, now.m, 1), LAMBDA a :
    Then(AddDays(a, 30), LAMBDA b : Replace(b.y, b.m, 1)))

\* (today.replace(day=1) + timedelta(days=32)).replace(day=1)
FirstOfNextMonth(now) ==
    Then(Replace(now.y, now.m, 1), LAMBDA a :
    Then(AddDays(a, 32), LAMBDA b : Replace(b.y, b.m, 1)))

\* the branch of the chain selected by rule, with the groups g of its match
DueBranch(rule, g, now) ==
    CASE rule = "today"      -> Ok(Strftime(now))
      [] rule = "tomorrow"   -> FmtPlus(now, 1)
      [] rule = "yesterday"  -> FmtPlus(now, -1)
      [] rule = "this_week"  -> FmtPlus(now, 6 - Weekday(now))
      [] rule = "next_week"  -> FmtPlus(now, 7 - Weekday(now))
      [] rule = "last_week"  -> FmtPlus(now, -(Weekday(now) + 7))
      [] rule = "this_month" -> Then(FirstOfNextMonth(now), LAMBDA c : FmtPlus(c, -1))
      [] rule = "next_month" -> Then(FirstOfNextMonth(now), LAMBDA c : Ok(Strftime(c)))
      [] rule = "last_month" ->
            Then(Replace(now.y, now.m, 1), LAMBDA a :
            Then(AddDays(a, -1), LAMBDA b :
            Then(Replace(b.y, b.m, 1), LAMBDA c : Ok(Strftime(c)))))
      [] rule = "end_of_year" ->
            Then(Replace(now.y, 12, 31), LAMBDA c : Ok(Strftime(c)))
      [] rule = "next_day"   -> GetNextWeekday(g[1], now)
      [] rule = "this_day"   -> GetThisWeekday(g[1], now)
      [] rule = "in_days"    -> FmtPlus(now, StrToInt(g[1]))
      [] rule = "in_weeks"   ->
            LET weeks == StrToInt(g[1])
            IN  IF weeks > MaxDeltaDays \div 7 THEN Raise("OverflowError")
                ELSE FmtPlus(now, 7 * weeks)
      [] rule = "in_months"  ->
            LET months == StrToInt(g[1])
                sum == now.m + months
                new_year == now.y + (sum - 1) \div 12
                new_month == ((sum - 1) % 12) + 1
            IN  Then(Replace(new_year, new_month, now.d), LAMBDA c : Ok(Strftime(c)))
      [] rule = "numeric"    ->
            LET year == IF Len(g[3]) = 2 THEN "20" \o g[3] ELSE g[3]
            IN  Ok(year \o "-" \o ZFill(g[1], 2) \o "-" \o ZFill(g[2], 2))
      [] rule = "month_name" ->
            LET month_num == MonthNameToNumber(g[1])
                day == StrToInt(g[2])
                year == IF month_num < now.m \/ (month_num = now.m /\ day < now.d)
                        THEN now.y + 1 ELSE now.y
            IN  Ok(IntToStr(year) \o "-" \o ZFill(IntToStr(month_num), 2)
                   \o "-" \o ZFill(IntToStr(day), 2))

RECURSIVE DueChainFallThrough(_, _, _)
\* a chain that goes on to the later tests when a branch gives no date
DueChainFallThrough(text_lower, now, k) ==
    IF k > Len(DueRules) THEN Ok(None)
    ELSE Bind(SearchS(DueRules[k].pat, text_lower), LAMBDA mt :
             IF mt.ok /\ DueBranch(DueRules[k].rule, mt.groups, now) # Ok(None)
             THEN DueBranch(DueRules[k].rule, mt.groups, now)
             ELSE DueChainFallThrough(text_lower, now, k + 1))

RECURSIVE DueChain(_, _, _)
\* the first test of the chain that matches decides; no match: None
DueChain(text_lower, now, k) ==
    IF k > Len(DueRules) THEN Ok(None)
    ELSE Bind(SearchS(DueRules[k].pat, text_lower), LAMBDA mt :
             IF mt.ok THEN DueBranch(DueRules[k].rule, mt.groups, now)
             ELSE DueChain(text_lower, now, k + 1))

\* NLPProcessor._parse_due_date
ParseDueDate(text, now) == DueChain(Lower(text), now, 1)

-----------------------------------------------------------------------------
(* Entities, tags and the category-specific details.  A Command is a       *)
(* function from the names of the fields it has to their values.           *)

EmptyDict == [k \in {} |-> ""]

\* d.update(e): the entries of e win
Update(d, e) == e @@ d

\* {name: v} when cond, else {}
Entry(cond, name, v) == IF cond THEN name :> v ELSE EmptyDict

RECURSIVE SplitFrom(_, _, _, _)
\* s.split(sep) for a one-character sep: the pieces between the separators
SplitFrom(s, sep, i, start) ==
    IF i > Len(s) THEN << SubSeq(s, start, Len(s)) >>
    ELSE IF At(s, i) = sep
         THEN << SubSeq(s, start, i - 1) >> \o SplitFrom(s, sep, i + 1, i + 1)
         ELSE SplitFrom(s, sep, i + 1, start)

Split(s, sep) == SplitFrom(s, sep, 1, 1)

RECURSIVE WordsFrom(_, _)
\* s.split(): the maximal runs of non-whitespace
WordsFrom(s, i) ==
    LET b == FirstNonSpace(s, i)
        n == RunLen(s, b, "nonspace", 0)
    IN  IF b > Len(s) THEN <<>>
        ELSE << SubSeq(s, b, b + n - 1) >> \o WordsFrom(s, b + n)

Words(s) == WordsFrom(s, 1)

RECURSIVE Join(_, _)
\* sep.join(ws)
Join(ws, sep) ==
    IF Len(ws) = 0 THEN ""
    ELSE IF Len(ws) = 1 THEN ws[1]
    ELSE ws[1] \o sep \o Join(Tail(ws), sep)

Range(f) == {f[i] : i \in DOMAIN f}

\* \b(?:w1|w2|...)\b
AnyWord(ws) == << WB, <<"alt", ws, FALSE>>, WB >>

\* priority_patterns, in dictionary order
PriorityPatterns == <<
    [name |-> "high",
     pat |-> AnyWord(<<"urgent", "critical", "asap", "emergency", "high", "important", "priority">>)],
    [name |-> "medium", pat |-> AnyWord(<<"medium", "normal", "moderate">>)],
    [name |-> "low", pat |-> AnyWord(<<"low", "minor", "optional">>)]
>>

\* status_patterns, in dictionary order
StatusPatterns == <<
    [name |-> "completed", pat |-> AnyWord(<<"done", "completed", "finished", "complete">>)],
    [name |-> "in_progress",
     pat |-> << WB, <<"or", << <<Lit("in"), WS, Lit("progress")>>, <<Lit("working")>>,
                              <<Lit("ongoing")>> >> >>, WB >>],
    [name |-> "pending",
     pat |-> << WB, <<"or", << <<Lit("pending")>>, <<Lit("waiting")>>,
                              <<Lit("not"), WS, Lit("started")>> >> >>, WB >>]
>>

RECURSIVE LastNamedFirst(_, _, _)
\* the table looked through from its last entry to its first
LastNamedFirst(table, text, k) ==
    IF k > Len(table) THEN None
    ELSE IF SearchI(table[Len(table) + 1 - k].pat, text).ok THEN table[Len(table) + 1 - k].name
    ELSE LastNamedFirst(table, text, k + 1)

RECURSIVE FirstNamed(_, _, _)
\* for name, pattern in table.items(): the first name whose pattern is found, else None
FirstNamed(table, text, k) ==
    IF k > Len(table) THEN None
    ELSE IF SearchI(table[k].pat, text).ok THEN table[k].name
    ELSE FirstNamed(table, text, k + 1)

\* NLPProcessor._extract_entities
ExtractEntities(text, now) ==
    Bind(FirstNamed(PriorityPatterns, text, 1), LAMBDA priority :
    Bind(FirstNamed(StatusPatterns, text, 1), LAMBDA status :
    Then(ParseDueDate(text, now), LAMBDA due_date :
        Ok(Entry(priority # None, "priority", priority)
           @@ Entry(status # None, "status", status)
           @@ Entry(Truthy(due_date), "due_date", due_date)))))

\* category_keywords, in dictionary order
CategoryKeywords == <<
    [name |-> "work", kw |-> <<"work", "job", "office", "meeting", "presentation", "client",
        "project", "deadline", "report", "email", "call", "conference">>],
    [name |-> "personal", kw |-> <<"personal", "home", "family", "friend", "relationship", "life">>],
    [name |-> "shopping", kw |-> <<"buy", "purchase", "shop", "grocery", "store", "market",
        "mall", "online">>],
    [name |-> "health", kw |-> <<"health", "medical", "doctor", "dentist", "exercise", "gym",
        "workout", "fitness", "wellness", "appointment">>],
    [name |-> "finance", kw |-> <<"money", "finance", "bank", "bill", "payment", "budget",
        "expense", "investment", "tax", "insurance">>],
    [name |-> "learning", kw |-> <<"learn", "study", "course", "book", "read", "education",
        "training", "skill", "knowledge", "research">>],
    [name |-> "travel", kw |-> <<"travel", "trip", "vacation", "flight", "hotel", "booking",
        "reservation", "destination">>],
    [name |-> "cleaning", kw |-> <<"clean", "organize", "tidy", "declutter", "laundry",
        "dishes", "housework">>],
    [name |-> "cooking", kw |-> <<"cook", "meal", "food", "recipe", "dinner", "lunch",
        "breakfast", "kitchen">>],
    [name |-> "entertainment", kw |-> <<"movie", "game", "music", "party", "event", "fun",
        "entertainment", "hobby">>],
    [name |-> "urgent", kw |-> <<"urgent", "asap", "emergency", "critical", "immediate", "rush">>],
    [name |-> "important", kw |-> <<"important", "priority", "key", "essential", "vital">>],
    [name |-> "routine", kw |-> <<"routine", "daily", "weekly", "monthly", "regular", "habit">>]
>>

SpecificItems == <<
    "groceries", "milk", "bread", "eggs", "vegetables", "fruits",
    "meeting", "call", "email", "presentation", "report",
    "exercise", "gym", "workout", "running", "yoga",
    "doctor", "dentist", "appointment", "checkup",
    "bill", "payment", "rent", "mortgage", "insurance",
    "book", "reading", "study", "course", "class",
    "cleaning", "laundry", "dishes", "organizing",
    "cooking", "meal", "dinner", "lunch", "breakfast"
>>

\* NLPProcessor._extract_implicit_tags (its title argument is not read)
ExtractImplicitTags(text, title) ==
    {CategoryKeywords[k].name : k \in {j \in 1..Len(CategoryKeywords) :
                                          AnyIn(text, CategoryKeywords[j].kw)}}
    \cup {SpecificItems[k] : k \in {j \in 1..Len(SpecificItems) :
                                       Contains(text, SpecificItems[j])}}

\* the tests of _extract_time_tags with the tag each contributes
TimeTagPatterns == <<
    [name |-> "today", pat |-> Word1("today")],
    [name |-> "tomorrow", pat |-> Word1("tomorrow")],
    [name |-> "this_week", pat |-> Word2("this", "week")],
    [name |-> "next_week", pat |-> Word2("next", "week")],
    [name |-> "this_month", pat |-> Word2("this", "month")],
    [name |-> "next_month", pat |-> Word2("next", "month")],
    [name |-> "weekend", pat |-> Word1("weekend")],
    [name |-> "weekday", pat |-> Word1("weekday")],
    [name |-> "morning", pat |-> Word1("morning")],
    [name |-> "afternoon", pat |-> Word1("afternoon")],
    [name |-> "evening", pat |-> Word1("evening")],
    [name |-> "night", pat |-> Word1("night")]
>>

\* NLPProcessor._extract_time_tags
ExtractTimeTags(text) ==
    {TimeTagPatterns[k].name : k \in {j \in 1..Len(TimeTagPatterns) :
                                         SearchS(TimeTagPatterns[j].pat, text).ok}}

\* [:\s]+([^,]+)
ColonThenField == << <<"rep", "colonspace", 1, 0>>, <<"cap", "notcomma", 1, 0>> >>

\* explicit_tag_patterns
ExplicitTagPatterns == <<
    << Lit("tag"), <<"opt", <<Lit("s")>> >> >> \o ColonThenField,
    << Lit("category") >> \o ColonThenField,
    << Lit("with"), WS, Lit("tag"), <<"opt", <<Lit("s")>> >>, WS, <<"cap", "notcomma", 1, 0>> >>
>>

RECURSIVE FirstGroup(_, _, _)
\* group(1) of the first pattern of pats found in text, else None
FirstGroup(pats, text, k) ==
    IF k > Len(pats) THEN None
    ELSE Bind(SearchI(pats[k], text), LAMBDA mt :
             IF mt.ok THEN mt.groups[1] ELSE FirstGroup(pats, text, k + 1))

\* the explicit tags of the input: the group of the first pattern found,
\* split at commas, each piece stripped
ExplicitTags(text) ==
    Bind(FirstGroup(ExplicitTagPatterns, text, 1), LAMBDA g :
        IF g = None THEN {} ELSE {Strip(t) : t \in Range(Split(g, ","))})

\* NLPProcessor._extract_tags_from_text
ExtractTagsFromText(text, title) ==
    LET all == ExplicitTags(text)
               \cup ExtractImplicitTags(Lower(text), Lower(title))
               \cup ExtractTimeTags(Lower(text))
    IN  {Strip(t) : t \in {u \in all : Strip(u) # ""}}

\* desc_patterns
DescPatterns == <<
    << Lit("description") >> \o ColonThenField,
    << Lit("about") >> \o ColonThenField,
    << Lit("for") >> \o ColonThenField
>>

\* NLPProcessor._extract_add_task_details
ExtractAddTaskDetails(text, mt) ==
    LET title == IF Len(mt.groups) > 0 THEN mt.groups[1] ELSE ""
    IN  [title |-> title,
         description |-> Bind(FirstGroup(DescPatterns, text, 1), LAMBDA d :
                             IF d = None THEN "" ELSE Strip(d)),
         tags |-> ExtractTagsFromText(text, title)]

\* NLPProcessor._extract_search_details
ExtractSearchDetails(text, mt) ==
    [query |-> IF Len(mt.groups) > 0 THEN mt.groups[1] ELSE ""]

\* the normalisation of the new value of a status update
NormalizeStatusExact(new_value) ==
    IF Lower(new_value) \in {"completed", "done", "finished"} THEN "completed"
    ELSE IF AnyIn(Lower(new_value), <<"progress", "working">>) THEN "in_progress"
    ELSE "pending"

NormalizeStatus(new_value) ==
    IF AnyIn(Lower(new_value), <<"complete", "done", "finish">>) THEN "completed"
    ELSE IF AnyIn(Lower(new_value), <<"progress", "working">>) THEN "in_progress"
    ELSE "pending"

\* the normalisation of the new value of a priority update
NormalizePriority(new_value) ==
    IF AnyIn(Lower(new_value), <<"high", "urgent", "important">>) THEN "high"
    ELSE IF AnyIn(Lower(new_value), <<"low", "minor">>) THEN "low"
    ELSE "medium"

\* the field keywords looked for in the order title, priority, description
UpdateFieldTitleFirst(text) ==
    IF AnyIn(Lower(text), <<"title", "name">>) THEN "title"
    ELSE IF AnyIn(Lower(text), <<"priority", "important">>) THEN "priority"
    ELSE IF AnyIn(Lower(text), <<"description", "desc">>) THEN "description"
    ELSE "status"

\* the field an update command names
UpdateField(text) ==
    IF AnyIn(Lower(text), <<"priority", "important">>) THEN "priority"
    ELSE IF AnyIn(Lower(text), <<"title", "name">>) THEN "title"
    ELSE IF AnyIn(Lower(text), <<"description", "desc">>) THEN "description"
    ELSE "status"

\* NLPProcessor._extract_update_details
ExtractUpdateDetails(text, mt) ==
    LET new_value == IF Len(mt.groups) > 1 THEN mt.groups[2] ELSE ""
    IN  Bind(UpdateField(text), LAMBDA field :
            [task_id |-> StrToInt(mt.groups[1]),
             field |-> field,
             value |-> CASE field = "status" -> NormalizeStatus(new_value)
                         [] field = "priority" -> NormalizePriority(new_value)
                         [] OTHER -> new_value])

\* NLPProcessor._extract_delete_details
ExtractDeleteDetails(text, mt) == [task_id |-> StrToInt(mt.groups[1])]

\* confidence values, in tenths: 0.9, 0.7, 0.8, 0.0
ConfPattern == 9
ConfInferLow == 7
ConfInferHighAsPattern == 9
ConfInferHigh == 8
ConfUnknown == 0

\* NLPProcessor._extract_command_details
ExtractCommandDetails(command_type, text, mt, now) ==
    LET base == [command_type |-> command_type, confidence |-> ConfPattern, raw_input |-> text]
    IN  Then(ExtractEntities(text, now), LAMBDA entities :
            Ok(Update(Update(base, entities),
                      CASE command_type = "add_task" -> ExtractAddTaskDetails(text, mt)
                        [] command_type = "search_tasks" -> ExtractSearchDetails(text, mt)
                        [] command_type = "update_task" -> ExtractUpdateDetails(text, mt)
                        [] command_type = "delete_task" -> ExtractDeleteDetails(text, mt)
                        [] OTHER -> EmptyDict)))

RECURSIVE Without(_, _)
\* [word for word in words if word.lower() not in command_words]
Without(words, command_words) ==
    IF Len(words) = 0 THEN <<>>
    ELSE (IF Lower(Head(words)) \in command_words THEN <<>> ELSE <<Head(words)>>)
         \o Without(Tail(words), command_words)

\* NLPProcessor._extract_title_from_text
ExtractTitleFromText(text) ==
    Bind(SearchS(<<Q, CapNQ, Q>>, text), LAMBDA quote_match :
        IF quote_match.ok THEN quote_match.groups[1]
        ELSE Bind(Without(Words(text), {"add", "create", "new", "task", "a", "an"}),
                  LAMBDA meaningful :
                      IF Len(meaningful) > 0
                      THEN Join(SubSeq(meaningful, 1, Min({3, Len(meaningful)})), " ")
                      ELSE text))

\* NLPProcessor._extract_query_from_text
ExtractQueryFromText(text) ==
    Join(Without(Words(text),
                 {"find", "search", "look", "for", "show", "me", "tasks", "about"}), " ")

\* NLPProcessor._infer_command
\* the inference with the statistics keywords looked for before the list keywords
InferStatsBeforeList(text) ==
    LET low == Lower(text) IN
    IF AnyIn(low, <<"add", "create", "new", "make">>)
    THEN [command_type |-> "add_task", confidence |-> ConfInferLow, raw_input |-> text,
          title |-> ExtractTitleFromText(text)]
    ELSE IF AnyIn(low, <<"find", "search", "look", "show">>)
    THEN [command_type |-> "search_tasks", confidence |-> ConfInferLow, raw_input |-> text,
          query |-> ExtractQueryFromText(text)]
    ELSE IF AnyIn(low, <<"stats", "statistics", "summary">>)
    THEN [command_type |-> "show_stats", confidence |-> ConfInferHigh, raw_input |-> text]
    ELSE IF AnyIn(low, <<"list", "all", "tasks">>)
    THEN [command_type |-> "list_tasks", confidence |-> ConfInferHigh, raw_input |-> text]
    ELSE [command_type |-> "unknown", confidence |-> ConfUnknown, raw_input |-> text,
          error |-> "Could not understand command"]

InferCommand(text) ==
    LET low == Lower(text) IN
    IF AnyIn(low, <<"add", "create", "new", "make">>)
    THEN [command_type |-> "add_task", confidence |-> ConfInferLow, raw_input |-> text,
          title |-> ExtractTitleFromText(text)]
    ELSE IF AnyIn(low, <<"find", "search", "look", "show">>)
    THEN [command_type |-> "search_tasks", confidence |-> ConfInferLow, raw_input |-> text,
          query |-> ExtractQueryFromText(text)]
    ELSE IF AnyIn(low, <<"list", "all", "tasks">>)
    THEN [command_type |-> "list_tasks", confidence |-> ConfInferHigh, raw_input |-> text]
    ELSE IF AnyIn(low, <<"stats", "statistics", "summary">>)
    THEN [command_type |-> "show_stats", confidence |-> ConfInferHigh, raw_input |-> text]
    ELSE [command_type |-> "unknown", confidence |-> ConfUnknown, raw_input |-> text,
          error |-> "Could not understand command"]

RECURSIVE LastTypeFirst(_, _, _)
\* the loops run over the command types from the last declared to the first
LastTypeFirst(table, lowered, t) ==
    IF t > Len(table) THEN [ok |-> FALSE]
    ELSE LET u == Len(table) + 1 - t
             pats == table[u].patterns
         IN  Bind({i \in 1..Len(pats) : SearchLowered(pats[i], lowered).ok}, LAMBDA found :
                 IF found = {} THEN LastTypeFirst(table, lowered, t + 1)
                 ELSE Bind(Min(found), LAMBDA index :
                          [ok |-> TRUE, type |-> table[u].type, index |-> index,
                           mt |-> SearchLowered(pats[index], lowered)]))

RECURSIVE FirstPattern(_, _, _)
\* the loops of parse_command: the first pattern of the first command type
\* that is found in the lower-cased input
FirstPattern(table, lowered, t) ==
    IF t > Len(table) THEN [ok |-> FALSE]
    ELSE LET pats == table[t].patterns
         IN  Bind({i \in 1..Len(pats) : SearchLowered(pats[i], lowered).ok}, LAMBDA found :
                 IF found = {} THEN FirstPattern(table, lowered, t + 1)
                 ELSE Bind(Min(found), LAMBDA index :
                          [ok |-> TRUE, type |-> table[t].type, index |-> index,
                           mt |-> SearchLowered(pats[index], lowered)]))

\* NLPProcessor.parse_command: [exc, v, via], v the Command returned
ParseCommand(raw, table, now) ==
    Bind(Strip(raw), LAMBDA original_input :
    Bind(FirstPattern(table, Lower(original_input), 1), LAMBDA hit :
        IF hit.ok
        THEN Bind(ExtractCommandDetails(hit.type, original_input, hit.mt, now), LAMBDA r :
                 [exc |-> r.exc, v |-> r.v, via |-> IF r.exc = "" THEN "pattern" ELSE "raise"])
        ELSE Bind(InferCommand(original_input), LAMBDA c :
                 [exc |-> "", v |-> c,
                  via |-> IF c.command_type = "unknown" THEN "unknown" ELSE "inference"])))

-----------------------------------------------------------------------------
(* The interpreter as a state machine: a caller submits a string, the      *)
(* processor parses it on the date the clock shows, midnights pass.        *)

\* how many midnights a run may pass
MaxTicks == 1
\* the largest task number written in a generated command
MaxTaskNum == 2

Date(y, m, d) == [y |-> y, m |-> m, d |-> d]

\* the dates a run may start on: the 31st of a month before a shorter one,
\* the last day of a year, the day before a leap day, a day in mid-week
Anchors == {Date(2026, 1, 31), Date(2026, 12, 31), Date(2024, 2, 28), Date(2026, 11, 4)}

\* the words a user may write for W in "mark task N as W"
StatusWords == {"completed", "done", "finished", "complete", "finish", "Done",
                "progress", "working", "in_progress", "pending", "waiting", "todo"}

\* the task numbers written in generated commands
TaskNums == 0..MaxTaskNum \cup {5}

MarkInput(n, w) == "mark task " \o IntToStr(n) \o " as " \o w

MarkInputs == {MarkInput(n, w) : n \in TaskNums, w \in StatusWords}

AddInputs == {
    "add a high priority task to buy groceries tomorrow",
    "add task buy groceries tomorrow urgent",
    "create a task about the weekly report",
    "make dinner tonight",
    "add task \"Buy Milk\"",
    "Add a new task called 'Call Bob  ASAP '",
    "create task \"write report\" tomorrow",
    "new task \"Plan Trip\" next week",
    "add \"Read Book\" to my tasks",
    "add task pay rent in 1 month",
    "add task renew passport in 14 months",
    "add task archive logs in 9999999 days",
    "add task review budget in 2 weeks",
    "add task file taxes 13/45/2024",
    "add task call mom 12/25/2026",
    "add task dentist 1/2/123",
    "add task party february 30",
    "add task visit on march 15",
    "add task \"x\" tags: work, home",
    "add task \"x\" tags: home, work",
    "add task \"x\" tags:work,home",
    "add task \"x\" tags:   home  ,  work  "
}

OtherInputs == {
    "gibberish xyz 123",
    "",
    "hello there",
    "list all tasks",
    "  list all tasks  ",
    "\tshow my tasks\n",
    "search for \"Quarterly Report\"",
    "find tasks about taxes this friday",
    "show me everything",
    "delete task 2",
    "complete task 1",
    "what are my task stats",
    "summary please",
    "update task 1 to high priority",
    "all of it"
}

\* inputs that patterns of several command types match, or a quoted and a
\* catch-all pattern of one type
OrderInputs == {
    "search for all tasks",
    "find my tasks",
    "show all tasks statistics",
    "add task list all tasks",
    "mark task 1 as done and delete task 2",
    "delete task 2 stats",
    "remove 1 and show statistics",
    "search for \"milk\" and eggs",
    "find tasks about 'taxes' please",
    "add task \"pay rent\" now",
    "show me \"Budget\" and find it",
    "Create a task 'Call Bob' about the invoice",
    "please find 'x' and add task y",
    "display task stats and all tasks"
}

\* inputs no pattern matches, with keywords of several lists of the inference
InferInputs == {
    "make a list of everything",
    "look at all the summary",
    "summary of all",
    "Summary of TASKS",
    "renewal notice",
    "the lookout"
}

\* inputs with priority keywords of several sets, in either letter case, as
\* parts of longer words, and with none
PriorityInputs == {
    "add task low priority cleanup",
    "add task Minor but URGENT fix",
    "add task normal low chore",
    "add task optional reading",
    "add task IMPORTANT low thing",
    "add task drive the highway to the lowlands",
    "delete task 1 optional",
    "search for moderate things",
    "make something urgent"
}

\* update commands that name a field, several fields or none, and the two
\* update commands that carry a task number only
UpdateInputs == {
    "update task 1 to newname title",
    "change task 2 to short description",
    "set task 1 to urgent priority title",
    "update 1 to important",
    "rename: update task 1 to done",
    "update task 2 to describe",
    "mark 1 priority as whatever",
    "set 2 priority to minor",
    "task 1 is now blocked",
    "change task 1 to working",
    "complete task 2",
    "finish task 1 by name",
    "finish task 2"
}

\* inputs no pattern is found in, with an add or a search keyword, with and
\* without quoted text, with more than three words and with stop words only
InferDetailInputs == {
    "look up \"budget report\" now",
    "make \"Plan B\" happen today",
    "make one two three four five",
    "look into one two three four",
    "create an a new"
}

Inputs == MarkInputs \cup AddInputs \cup OtherInputs \cup OrderInputs \cup InferInputs
              \cup PriorityInputs \cup UpdateInputs \cup InferDetailInputs

\* what process_command answered: the handler, its outcome, the ids it lists
Response(handler, outcome, listed) ==
    [handler |-> handler, outcome |-> outcome, listed |-> listed]

NoResponse == Response("none", "none", <<>>)

\* a VectorMemory instance after __init__ without files: objs are the task
\* dictionaries it has created, tasks and tasks_by_id refer to them by their
\* position in objs, index holds the embedded texts
NewMemory ==
    [objs |-> <<>>, tasks |-> <<>>, tasks_by_id |-> EmptyDict, index |-> <<>>,
     dirty |-> FALSE, save_timer |-> "none", late |-> 0, alive |-> TRUE]

\* the instance has written no files
NoFile == [tasks |-> <<>>, index |-> <<>>, written |-> FALSE]

\* the threads that may be inside register_user at the same time
Threads == {1, 2}

\* no register_user call has been made
NoCall == [at |-> "idle"]

\* no task route has answered yet
NoWeb == [route |-> "none", status |-> 0, tasks |-> <<>>]

\* the client has been told of no task yet
NoAcked == [live |-> <<>>, deleted |-> {}]

\* no call yet
NoResult == [exc |-> "none", v |-> EmptyDict]
NoPrev == [input |-> "", anchor |-> Date(1, 1, 1), result |-> NoResult]

\* the table with its first command type moved to the end
PatternsRotated(table) == Tail(table) \o <<Head(table)>>

\* what a call of parse_command leaves of the processor's pattern table:
\* it reads self.command_patterns and assigns nothing
PatternsAfterParse(table) == table

\* the state after construction, on one of the given dates
InitOn(dates) ==
    /\ today \in dates
    /\ ticks = 0
    /\ command_patterns = InitialPatterns
    /\ pc = "idle"
    /\ user_input = ""
    /\ anchor = today
    /\ result = NoResult
    /\ via = "none"
    /\ prev = NoPrev
    /\ tasks = <<>>
    /\ next_uuid = 1
    /\ response = NoResponse
    /\ store_file = <<>>
    /\ timers = <<>>
    /\ web = NoWeb
    /\ acked = NoAcked
    /\ login_log = <<>>
    /\ sessions = {}
    /\ users = {}
    /\ cache = {}
    /\ calls = [t \in Threads |-> NoCall]
    /\ drawn = 0
    /\ memory = NewMemory
    /\ disk = NoFile
    /\ mutations = 0

InitCommon == InitOn(Anchors)

\* a caller passes s to parse_command
Call(s) ==
    /\ pc = "idle"
    /\ pc' = "called"
    /\ user_input' = s
    /\ result' = NoResult
    /\ via' = "none"
    /\ UNCHANGED <<today, ticks, command_patterns, anchor, prev, tasks, next_uuid, response>>
    /\ UNCHANGED webvars

\* parse_command runs on the pending input and returns or raises
Parse ==
    /\ pc = "called"
    /\ \E r \in {ParseCommand(user_input, command_patterns, today)} :
           /\ result' = [exc |-> r.exc, v |-> r.v]
           /\ via' = r.via
    /\ anchor' = today
    /\ command_patterns' = PatternsAfterParse(command_patterns)
    /\ pc' = "idle"
    /\ UNCHANGED <<today, ticks, user_input, prev, tasks, next_uuid, response>>
    /\ UNCHANGED webvars

\* midnight: the clock shows the next day
Tick ==
    /\ ticks < MaxTicks
    /\ ticks' = ticks + 1
    /\ today' = AddDays(today, 1).v
    /\ UNCHANGED <<command_patterns, pc, user_input, anchor, result, via, prev,
                   tasks, next_uuid, response>>
    /\ UNCHANGED webvars

NextParse ==
    \/ \E s \in Inputs : Call(s)
    \/ Parse
    \/ Tick

\* the interpreter alone
SpecParse == InitCommon /\ [][NextParse]_vars

\* the command every input of the due-date runs starts with
DuePrefix == "add task call bob"

\* the input that asks for the task with the date phrase
WithPhrase(phrase) == DuePrefix \o " " \o phrase

\* the dates the due-date runs may start on: the days of one week, the
\* first and last days of January and December, the last days of February,
\* the 15th of November and the 31st of a month before a shorter one
DueAnchors ==
    {Date(2026, 11, d) : d \in 2..8} \cup
    {Date(2026, 1, 1), Date(2026, 1, 31), Date(2026, 12, 1), Date(2026, 12, 31),
     Date(2024, 2, 29), Date(2025, 2, 28), Date(2026, 11, 15), Date(2026, 3, 31)}

\* one date phrase or two for each of the rules 1 to 10 of the chain
RulePhrases == <<
    {"tomorrow"}, {"tonight"}, {"next week"}, {"last month"}, {"end of year"},
    {"next friday"}, {"this monday", "this sunday"}, {"in 3 days"},
    {"12/25/2026"}, {"march 15"}
>>

\* the texts with phrases of two different rules, in either order
TwoPhraseInputs ==
    {WithPhrase(p \o " " \o q) :
        <<p, q>> \in UNION {RulePhrases[i] \X RulePhrases[j] :
                              <<i, j>> \in {ij \in (1..10) \X (1..10) : ij[1] # ij[2]}}}

\* the counts N written in "in N days", "in N weeks", "in N months"
Counts == {0, 1, 3, 14}

DueInputs ==
    {DuePrefix} \cup TwoPhraseInputs
    \cup {WithPhrase(p) : p \in UNION {RulePhrases[i] : i \in 1..10}}
    \cup {WithPhrase(w \o " " \o DayNames[d]) : w \in {"next", "this"}, d \in 1..7}
    \cup {WithPhrase(p) : p \in {"this month", "end of month", "next month", "last month"}}
    \cup {WithPhrase("in " \o IntToStr(n) \o " " \o u) :
              n \in Counts, u \in {"days", "weeks", "months"}}
    \cup {WithPhrase("in 1 day"), WithPhrase("in 1 month"), WithPhrase("in 9999999 days")}

InitDue == InitOn(DueAnchors)

NextDue ==
    \/ \E s \in DueInputs : Call(s)
    \/ Parse

\* the interpreter on inputs with date phrases, each run on one anchor date
SpecDue == InitDue /\ [][NextDue]_vars

\* the strings of the runs that compare two calls
PairInputs == {
    "find all tasks due tomorrow",
    "add task call mom next friday",
    "show my tasks",
    "gibberish xyz 123",
    "add task pay rent in 1 month"
}

\* an observer keeps the last finished call to compare later calls with it
Remember ==
    /\ pc = "idle"
    /\ result.exc # "none"
    /\ prev' = [input |-> user_input, anchor |-> anchor, result |-> result]
    /\ UNCHANGED <<today, ticks, command_patterns, pc, user_input, anchor, result, via,
                   tasks, next_uuid, response>>
    /\ UNCHANGED webvars

NextPairs ==
    \/ \E s \in PairInputs : Call(s)
    \/ Parse
    \/ Tick
    \/ Remember

\* the interpreter with a remembered earlier call
SpecPairs == InitCommon /\ [][NextPairs]_vars

-----------------------------------------------------------------------------
(* The assistant: TaskAssistant.process_command over the task store of one *)
(* user.  A stored task keeps the fields the commands read; its time       *)
(* stamps and its embedding are left out.  A response is recorded by the   *)
(* handler that produced it, its outcome and the ids of the tasks it lists.*)

\* how many tasks a run may add
MaxTasks == 2

\* uuid.uuid4() as text: the n-th identifier drawn
Uuid(n) == "uuid-" \o IntToStr(n)

\* d.get(k, default)
Get(d, k, default) == IF k \in DOMAIN d THEN d[k] ELSE default

\* the ids of a list of tasks, in its order
Ids(ts) == [i \in 1..Len(ts) |-> ts[i].id]

\* VectorMemory.add_task on the store m = [tasks, next_uuid]
MemoryAddTask(m, title, description, priority, status, tags, due_date) ==
    [tasks |-> Append(m.tasks,
                      [id |-> Uuid(m.next_uuid), title |-> title, description |-> description,
                       priority |-> priority, status |-> status, tags |-> tags,
                       due_date |-> due_date, completed |-> FALSE]),
     next_uuid |-> m.next_uuid + 1]

\* VectorMemory.get_task_by_id, an Optional as a sequence of at most one task:
\* the keys of tasks_by_id are the uuid strings, so a key that is an integer
\* finds nothing
GetTaskById(m, key) ==
    IF key.int THEN <<>> ELSE SelectSeq(m.tasks, LAMBDA t : t.id = key.v)

\* VectorMemory.update_task(task_id, **{field: value})
MemoryUpdateTask(m, id, field, value) ==
    [m EXCEPT !.tasks = [i \in 1..Len(m.tasks) |->
        IF m.tasks[i].id = id /\ field \in DOMAIN m.tasks[i]
        THEN [m.tasks[i] EXCEPT ![field] = value]
        ELSE m.tasks[i]]]

\* VectorMemory.delete_task
MemoryDeleteTask(m, id) ==
    [m EXCEPT !.tasks = SelectSeq(m.tasks, LAMBDA t : t.id # id)]

\* TaskAssistant._find_task_by_display_position
FindTaskByDisplayPosition(m, position) ==
    IF 1 <= position /\ position <= Len(m.tasks) THEN << m.tasks[position] >> ELSE <<>>

\* the task an NLP update or delete acts on: looked up by database id first,
\* by display position when that finds nothing
ExistingTask(m, task_id) ==
    IF GetTaskById(m, [int |-> TRUE, v |-> task_id]) # <<>>
    THEN GetTaskById(m, [int |-> TRUE, v |-> task_id])
    ELSE FindTaskByDisplayPosition(m, task_id)

\* TaskAssistant._execute_nlp_command: [m, response]
ExecuteNlpCommand(c, m) ==
    CASE c.command_type = "add_task" ->
           IF Get(c, "title", "") # ""
           THEN [m |-> MemoryAddTask(m, c.title, Get(c, "description", ""),
                                     Get(c, "priority", "medium"), "pending",
                                     Get(c, "tags", {}), Get(c, "due_date", None)),
                 response |-> Response("nlp_add_task", "added", <<>>)]
           ELSE [m |-> m, response |-> Response("nlp_add_task", "no_title", <<>>)]
      [] c.command_type = "search_tasks" ->
           [m |-> m,
            response |-> Response("nlp_search_tasks",
                                  IF Get(c, "query", "") # "" THEN "searched" ELSE "no_query",
                                  <<>>)]
      [] c.command_type = "list_tasks" ->
           [m |-> m,
            response |-> Response("nlp_list_tasks",
                                  IF Len(m.tasks) = 0 THEN "no_tasks" ELSE "listed",
                                  Ids(m.tasks))]
      [] c.command_type = "update_task" ->
           Bind(ExistingTask(m, c.task_id), LAMBDA existing_task :
               IF existing_task # <<>>
               THEN [m |-> MemoryUpdateTask(m, existing_task[1].id, Get(c, "field", "status"),
                                            Get(c, "value", "completed")),
                     response |-> Response("nlp_update_task", "updated", <<>>)]
               ELSE [m |-> m, response |-> Response("nlp_update_task", "not_found", <<>>)])
      [] c.command_type = "delete_task" ->
           Bind(ExistingTask(m, c.task_id), LAMBDA existing_task :
               IF existing_task # <<>>
               THEN [m |-> MemoryDeleteTask(m, existing_task[1].id),
                     response |-> Response("nlp_delete_task", "deleted", <<>>)]
               ELSE [m |-> m, response |-> Response("nlp_delete_task", "not_found", <<>>)])
      [] c.command_type = "show_stats" ->
           [m |-> m, response |-> Response("nlp_show_stats", "shown", <<>>)]

\* the characters of ASCII from the space to the z that the texts of a run
\* are made of, in code order
AsciiChars ==
    " !\"#$%&'()*+,-./" \o DigitChars \o ":;<=>?@" \o UpperChars \o "_" \o LowerChars

\* a < b as Python compares strings
StrLess(a, b) ==
    LET differ == {i \in 1..Min({Len(a), Len(b)}) : At(a, i) # At(b, i)}
    IN  IF differ = {} THEN Len(a) < Len(b)
        ELSE IndexIn(At(a, Min(differ)), AsciiChars) < IndexIn(At(b, Min(differ)), AsciiChars)

\* datetime.strptime(s, '%Y-%m-%d'): four digits, one or two for the month,
\* one or two for the day, and a day that exists
Strptime(s) ==
    LET parts == Split(s, "-")
        well == /\ Len(parts) = 3
                /\ Len(parts[1]) = 4 /\ AllDigits(parts[1])
                /\ Len(parts[2]) \in 1..2 /\ AllDigits(parts[2])
                /\ Len(parts[3]) \in 1..2 /\ AllDigits(parts[3])
    IN  IF well /\ ValidDate(StrToInt(parts[1]), StrToInt(parts[2]), StrToInt(parts[3]))
        THEN Ok(Date(StrToInt(parts[1]), StrToInt(parts[2]), StrToInt(parts[3])))
        ELSE Raise("ValueError")

\* TaskAssistant._add_task: [m, response]
AddTask(args, m) ==
    LET parts == Split(args, "|")
        title == Strip(parts[1])
        description == IF Len(parts) > 1 THEN Strip(parts[2]) ELSE ""
        given == IF Len(parts) > 2 THEN Strip(parts[3]) ELSE "medium"
        priority == IF given \in {"low", "medium", "high"} THEN given ELSE "medium"
        tags_str == IF Len(parts) > 3 THEN Strip(parts[4]) ELSE ""
        tags == {Strip(t) : t \in {u \in Range(Split(tags_str, ",")) : Strip(u) # ""}}
        due_date == IF Len(parts) > 4 THEN Strip(parts[5]) ELSE None
    IN  IF args = "" THEN [m |-> m, response |-> Response("add", "usage", <<>>)]
        ELSE IF title = "" THEN [m |-> m, response |-> Response("add", "no_title", <<>>)]
        ELSE IF Truthy(due_date) /\ Strptime(due_date).exc # ""
        THEN [m |-> m, response |-> Response("add", "bad_date", <<>>)]
        ELSE [m |-> MemoryAddTask(m, title, description, priority, "pending", tags, due_date),
              response |-> Response("add", "added", <<>>)]

RECURSIVE ParseFilters(_, _)
\* the loop of _list_tasks over args.split(): a later filter of a kind
\* replaces an earlier one
ParseFilters(parts, filters) ==
    IF Len(parts) = 0 THEN filters
    ELSE LET part == Head(parts)
             kinds == {k \in {"priority", "tag", "status", "due"} :
                          /\ Len(part) > Len(k)
                          /\ SubSeq(part, 1, Len(k) + 1) = k \o ":"}
         IN  ParseFilters(Tail(parts),
                          IF kinds = {} THEN filters
                          ELSE Update(filters, (CHOOSE k \in kinds : TRUE) :> Split(part, ":")[2]))

\* the test of one filter of _task_matches_filters
FilterHolds(task, kind, value, now) ==
    CASE kind = "priority" -> Lower(task.priority) = Lower(value)
      [] kind = "tag" -> Lower(value) \in {Lower(t) : t \in task.tags}
      [] kind = "status" ->
            /\ Lower(value) = "completed" => task.completed
            /\ Lower(value) = "pending" => ~task.completed
      [] kind = "due" ->
            Lower(value) \in {"overdue", "today"} =>
                /\ Truthy(task.due_date)
                /\ Strptime(task.due_date).exc = ""
                /\ Lower(value) = "overdue" =>
                       ToOrdinal(Strptime(task.due_date).v) < ToOrdinal(now)
                /\ Lower(value) = "today" => Strptime(task.due_date).v = now

\* TaskAssistant._task_matches_filters
TaskMatchesFilters(task, filters, now) ==
    \A kind \in DOMAIN filters : FilterHolds(task, kind, filters[kind], now)

\* the sort key of _list_tasks: the rank of the priority, then the due date
PriorityRank(priority) ==
    CASE priority = "high" -> 0 [] priority = "low" -> 2 [] OTHER -> 1

DueKey(task) == IF Truthy(task.due_date) THEN task.due_date ELSE "9999-12-31"

\* key(a) <= key(b)
KeyLeq(a, b) ==
    \/ PriorityRank(a.priority) < PriorityRank(b.priority)
    \/ /\ PriorityRank(a.priority) = PriorityRank(b.priority)
       /\ ~StrLess(DueKey(b), DueKey(a))

RECURSIVE SortTasks(_)
\* list.sort(key=...): stable, a task goes behind those whose key is not larger
SortTasks(ts) ==
    IF Len(ts) <= 1 THEN ts
    ELSE Bind(SortTasks(SubSeq(ts, 1, Len(ts) - 1)), LAMBDA sorted :
         Bind(Cardinality({i \in 1..Len(sorted) : KeyLeq(sorted[i], ts[Len(ts)])}), LAMBDA n :
             SubSeq(sorted, 1, n) \o << ts[Len(ts)] >> \o SubSeq(sorted, n + 1, Len(sorted))))

\* TaskAssistant._list_tasks: [m, response]
ListTasks(args, m, now) ==
    IF Len(m.tasks) = 0 THEN [m |-> m, response |-> Response("list", "no_tasks", <<>>)]
    ELSE Bind(ParseFilters(Words(args), EmptyDict), LAMBDA filters :
         Bind(SelectSeq(m.tasks, LAMBDA t : TaskMatchesFilters(t, filters, now)),
              LAMBDA filtered_tasks :
                  IF Len(filtered_tasks) = 0
                  THEN [m |-> m, response |-> Response("list", "no_match", <<>>)]
                  ELSE [m |-> m,
                        response |-> Response("list", "listed", Ids(SortTasks(filtered_tasks)))]))

\* the keys of self.commands
Commands == {"add", "search", "list", "update", "delete", "complete", "stats", "analytics",
             "insights", "weekly", "due", "suggest", "recommendations", "help", "quit", "exit"}

\* user_input.split(' ', 1): the command word in lower case and the rest
CommandWord(text) ==
    Lower(SubSeq(text, 1, Min({i \in 1..Len(text) : At(text, i) = " "}
                                    \cup {Len(text) + 1}) - 1))

ArgsOf(text) ==
    SubSeq(text, Min({i \in 1..Len(text) : At(text, i) = " "}
                           \cup {Len(text) + 1}) + 1, Len(text))

\* TaskAssistant._process_traditional_command with the handlers add, list,
\* help, quit and exit: [m, response]
ProcessTraditionalCommand(text, m, now) ==
    Bind(CommandWord(text), LAMBDA command :
        CASE command \notin Commands ->
               [m |-> m, response |-> Response("traditional", "unknown_command", <<>>)]
          [] command = "add" -> AddTask(ArgsOf(text), m)
          [] command = "list" -> ListTasks(ArgsOf(text), m, now)
          [] command \in {"help", "quit", "exit"} ->
               [m |-> m, response |-> Response(command, "shown", <<>>)])

\* TaskAssistant.process_command: [m, response]
ProcessCommand(raw, m, table, now) ==
    Bind(Strip(raw), LAMBDA stripped :
        IF stripped = "" THEN [m |-> m, response |-> Response("process_command", "empty", <<>>)]
        ELSE Bind(ParseCommand(stripped, table, now), LAMBDA parsed_command :
                 IF parsed_command.exc # ""
                 THEN [m |-> m, response |-> Response("raise", parsed_command.exc, <<>>)]
                 ELSE IF parsed_command.v.command_type # "unknown"
                 THEN ExecuteNlpCommand(parsed_command.v, m)
                 ELSE ProcessTraditionalCommand(stripped, m, now)))

\* the commands of a run that may add a task
AddCommands == {
    "add \"Buy groceries\" | \"Milk, bread, eggs\" | high | shopping,food | 2024-05-01",
    "add Pay rent | monthly | high | home | 2026-11-04",
    "add Buy milk",
    "add task buy groceries tomorrow urgent"
}

\* the other commands of a run
OtherCommands == {
    "list",
    "list priority:high",
    "list tag:home due:today",
    "list status:completed",
    "LIST priority:medium",
    "list all tasks",
    "help",
    "gibberish xyz 123",
    "",
    "delete task 1",
    "mark task 1 as done",
    "update task 2 to low priority"
}

\* a user sends s
Submit(s) ==
    /\ pc = "idle"
    /\ s \in AddCommands => next_uuid <= MaxTasks
    /\ pc' = "submitted"
    /\ user_input' = s
    /\ response' = NoResponse
    /\ UNCHANGED <<today, ticks, command_patterns, result, via, anchor, prev, tasks, next_uuid>>
    /\ UNCHANGED webvars

\* process_command runs on the pending input
Respond ==
    /\ pc = "submitted"
    /\ \E out \in {ProcessCommand(user_input, [tasks |-> tasks, next_uuid |-> next_uuid],
                                  command_patterns, today)} :
           /\ tasks' = out.m.tasks
           /\ next_uuid' = out.m.next_uuid
           /\ response' = out.response
    /\ pc' = "idle"
    /\ UNCHANGED <<today, ticks, command_patterns, user_input, result, via, anchor, prev>>
    /\ UNCHANGED webvars

NextAssistant ==
    \/ \E s \in AddCommands \cup OtherCommands : Submit(s)
    \/ Respond
    \/ Tick

\* the assistant with the task store of one user
SpecAssistant == InitCommon /\ [][NextAssistant]_vars

\* a call has returned a Command
Returned == pc = "idle" /\ result.exc = ""
cmd == result.v
Has(field) == field \in DOMAIN cmd

-----------------------------------------------------------------------------
(* Claims about the interpreter, checked under SpecParse                   *)

Categories == {"add_task", "search_tasks", "list_tasks", "update_task", "delete_task",
               "show_stats", "unknown"}

\* the input as parse_command reads it
Stripped == Strip(user_input)

\* does d have field f with value v
HasValue(d, f, v) == f \in DOMAIN d /\ d[f] = v

\* C1: every add_task Command, from a pattern rule or from keyword inference,
\* carries the priority, due_date and tags the entity extractors derive from
\* the input; the documented example gets priority high, tomorrow's date and
\* the tags shopping and tomorrow.
C1_AddTaskCarriesEntities ==
    Returned /\ cmd.command_type = "add_task" =>
        LET ent == ExtractEntities(Stripped, anchor)
        IN  /\ ent.exc = "" =>
                 /\ \A f \in {"priority", "due_date"} :
                        IF f \in DOMAIN ent.v THEN HasValue(cmd, f, ent.v[f]) ELSE ~Has(f)
                 /\ Has("tags")
                 /\ cmd.tags = ExtractTagsFromText(Stripped, cmd.title)
            /\ user_input = "add a high priority task to buy groceries tomorrow" =>
                 /\ HasValue(cmd, "priority", "high")
                 /\ HasValue(cmd, "due_date", FmtPlus(anchor, 1).v)
                 /\ Has("tags") /\ {"shopping", "tomorrow"} \subseteq cmd.tags

\* the add-task phrases with a quoted title: add/create [a] [new] task [called] "X"
QuotedAddPatterns == SubSeq(InitialPatterns[1].patterns, 1, 2)

\* X as typed between the quotes, None when the input has no such phrase
QuotedTitleTyped(text) ==
    LET found == {i \in 1..Len(QuotedAddPatterns) : SearchI(QuotedAddPatterns[i], text).ok}
    IN  IF found = {} THEN None
        ELSE SearchI(QuotedAddPatterns[Min(found)], text).groups[1]

\* C2: when a quoted string follows an add-task phrase, the title is the quoted
\* content exactly as typed, letter case included.
C2_QuotedTitleVerbatim ==
    Returned /\ QuotedTitleTyped(Stripped) # None =>
        cmd.command_type = "add_task" /\ HasValue(cmd, "title", QuotedTitleTyped(Stripped))

\* C3: parse_command returns a Command for every input on every anchor date;
\* it never raises.
C3_NeverRaises == pc = "idle" => result.exc \in {"", "none"}


\* s is YYYY-MM-DD and names a day of the calendar
IsCalendarDate(s) ==
    /\ Len(s) = 10
    /\ At(s, 5) = "-" /\ At(s, 8) = "-"
    /\ AllDigits(SubSeq(s, 1, 4)) /\ AllDigits(SubSeq(s, 6, 7)) /\ AllDigits(SubSeq(s, 9, 10))
    /\ ValidDate(StrToInt(SubSeq(s, 1, 4)), StrToInt(SubSeq(s, 6, 7)),
                 StrToInt(SubSeq(s, 9, 10)))

\* C4: due_date is absent or a YYYY-MM-DD string naming an existing calendar date.
C4_DueDateIsCalendarDate == Returned /\ Has("due_date") => IsCalendarDate(cmd.due_date)

\* where the clause "tags:" starts in text, 0 if it has none
TagsClauseAt(text) == SearchS(<<Lit("tags:")>>, text).start

\* the tags listed after "tags:", separated by commas, whitespace around them dropped
ListedTags(text) ==
    {Strip(t) : t \in Range(Split(SubSeq(text, TagsClauseAt(text) + 5, Len(text)), ","))}

\* the text before the clause
BeforeClause(text) == Strip(SubSeq(text, 1, TagsClauseAt(text) - 1))

\* C5: an add_task input with a "tags:" clause gets every listed tag, and the
\* same tag set as every input that lists the same tags in another order or
\* with other whitespace.
C5_TagsClauseAsSet ==
    Returned /\ cmd.command_type = "add_task" /\ TagsClauseAt(Stripped) > 0 =>
        /\ Has("tags") /\ ListedTags(Stripped) \subseteq cmd.tags
        /\ \A s \in Inputs :
              /\ TagsClauseAt(s) > 0
              /\ BeforeClause(s) = BeforeClause(Stripped)
              /\ ListedTags(s) = ListedTags(Stripped)
              => ParseCommand(s, command_patterns, anchor).v.tags = cmd.tags

\* a mark command with number n and status word w has been parsed into an
\* update of the status of task n to value
MarkedAs(n, w, value) ==
    /\ Returned
    /\ cmd.command_type = "update_task"
    /\ HasValue(cmd, "task_id", n)
    /\ HasValue(cmd, "field", "status")
    /\ HasValue(cmd, "value", value)

\* C6 as claimed: "mark task N as W" updates the status of task N to completed
\* when W is done, completed or finished, to in_progress when W contains
\* progress or working, and to pending otherwise.
C6_MarkStatusWordIs ==
    \A n \in TaskNums, w \in StatusWords :
        pc = "idle" /\ user_input = MarkInput(n, w) =>
            MarkedAs(n, w,
                     IF Lower(w) \in {"done", "completed", "finished"} THEN "completed"
                     ELSE IF Contains(Lower(w), "progress") \/ Contains(Lower(w), "working")
                          THEN "in_progress"
                     ELSE "pending")

\* C6 amended: the value is completed when W contains complete, done or finish in
\* any letter case, in_progress when it otherwise contains progress or working,
\* and pending otherwise.
C6_MarkStatusWordContains ==
    \A n \in TaskNums, w \in StatusWords :
        pc = "idle" /\ user_input = MarkInput(n, w) =>
            MarkedAs(n, w,
                     IF \E k \in {"complete", "done", "finish"} : Contains(Lower(w), k)
                     THEN "completed"
                     ELSE IF Contains(Lower(w), "progress") \/ Contains(Lower(w), "working")
                          THEN "in_progress"
                     ELSE "pending")

C6_Witness ==
    /\ user_input = "mark task 5 as completed"
    /\ MarkedAs(5, "completed", "completed")

\* C7: the category is one of the fixed set; the confidence is 0.9 exactly for a
\* pattern match, 0.7 or 0.8 exactly for keyword inference, 0.0 exactly for
\* unknown; the error string is there exactly for unknown; an input with no
\* pattern and no keyword is returned as unknown.
C7_ConfidenceByOrigin ==
    Returned =>
        /\ cmd.command_type \in Categories
        /\ cmd.confidence = 9 <=> via = "pattern"
        /\ cmd.confidence \in {7, 8} <=> via = "inference"
        /\ cmd.confidence = 0 <=> cmd.command_type = "unknown"
        /\ Has("error") <=> cmd.command_type = "unknown"
        /\ via = "unknown" <=> cmd.command_type = "unknown"
        /\ user_input = "gibberish xyz 123" => cmd.command_type = "unknown"

C7_Witness ==
    /\ Returned
    /\ user_input = "gibberish xyz 123"
    /\ cmd.command_type = "unknown" /\ cmd.confidence = 0 /\ Has("error")

\* C8 as claimed: raw_input is the input string, character for character,
\* leading and trailing whitespace included.
C8_RawInputVerbatim == Returned => cmd.raw_input = user_input

\* inner is s without the whitespace at its two ends: s is whitespace, inner,
\* whitespace, and inner neither starts nor ends with whitespace
IsTrimmed(inner, s) ==
    /\ \E i \in 0..Len(s) :
          /\ i + Len(inner) <= Len(s)
          /\ SubSeq(s, i + 1, i + Len(inner)) = inner
          /\ \A k \in (1..i) \cup ((i + Len(inner) + 1)..Len(s)) : At(s, k) \in SpaceSet
    /\ inner # "" => At(inner, 1) \notin SpaceSet /\ At(inner, Len(inner)) \notin SpaceSet

\* C8 amended: raw_input is the input string without its leading and trailing
\* whitespace; every character between, letter case included, is kept.
C8_RawInputTrimmed == Returned => IsTrimmed(cmd.raw_input, user_input)

C8_Witness ==
    /\ Returned
    /\ user_input = "\tshow my tasks\n"
    /\ cmd.raw_input = "show my tasks"

-----------------------------------------------------------------------------
(* Claims about the assistant, checked under SpecAssistant                 *)

\* the syntaxes of the help text: add with its five fields, list with filters
TraditionalAdd(s) ==
    CommandWord(Strip(s)) = "add" /\ Len(Split(ArgsOf(Strip(s)), "|")) = 5

TraditionalList(s) == CommandWord(Strip(s)) = "list"

\* C10: an input in a traditional syntax of the help text has the effect of
\* the traditional handler: "add title | description | priority | tags |
\* due_date" stores the task _add_task makes of the five fields, and "list"
\* with filters lists the tasks _list_tasks finds to satisfy every filter.
C10_TraditionalSyntaxEffect ==
    [][pc = "submitted" /\ pc' = "idle" =>
          LET m == [tasks |-> tasks, next_uuid |-> next_uuid]
              args == ArgsOf(Strip(user_input))
          IN  /\ TraditionalAdd(user_input) => tasks' = AddTask(args, m).m.tasks
              /\ TraditionalList(user_input) =>
                     Range(response'.listed)
                         = Range(ListTasks(args, m, today).response.listed)]_vars

-----------------------------------------------------------------------------
(* The web application (src/web_app.py) over the local store               *)
(* (src/vector_memory.py): every task route builds a TaskAssistant of its  *)
(* own, whose VectorMemory loads the user's files, and a change is written *)
(* back by a timer that fires _save_delay seconds after the request.  One  *)
(* authenticated user; the due_status a listing computes is left out.      *)

\* how many save timers may be pending at once
MaxTimers == 2

\* the JSON bodies of the create requests of a run
CreateBodies == {
    "title" :> "Test Task for Update" @@ "description" :> "to verify update"
        @@ "priority" :> "medium" @@ "tags" :> {"test", "update"} @@ "due_date" :> "2024-12-31",
    "title" :> " Second task ",
    "title" :> "  " @@ "priority" :> "high"
}

\* the JSON bodies of the update requests of a run
UpdateBodies == {
    "title" :> "Updated Test Task" @@ "description" :> "updated" @@ "priority" :> "high"
        @@ "colour" :> "red"
}

\* the task ids a request may name
TaskIds == {Uuid(n) : n \in 1..MaxTasks}

\* VectorMemory.__init__ with _load_existing_data: the instance of one request
LoadExistingData(file, uuid) == [tasks |-> file, next_uuid |-> uuid]

\* VectorMemory.update_task(task_id, **kwargs): the keys the task has are
\* assigned, the others are ignored
MemoryUpdateFields(m, id, kwargs) ==
    [m EXCEPT !.tasks = [i \in 1..Len(m.tasks) |->
        IF m.tasks[i].id = id
        THEN [k \in DOMAIN m.tasks[i] |->
                 IF k \in DOMAIN kwargs THEN kwargs[k] ELSE m.tasks[i][k]]
        ELSE m.tasks[i]]]

\* VectorMemory._schedule_save of a fresh instance: one more pending timer,
\* which keeps the instance and its task list alive
ScheduleSave(pending, m) == Append(pending, m.tasks)

\* the task as get_tasks hands it to the frontend
ProcessedTask(task) ==
    [task EXCEPT !.status = IF task.completed THEN "completed" ELSE "pending"]

\* the answer of a task route
WebResponse(route, status, ts) == [route |-> route, status |-> status, tasks |-> ts]

\* the client notes a created or updated task it was sent
AckTask(a, task) ==
    [a EXCEPT !.live = IF \E i \in 1..Len(a.live) : a.live[i].id = task.id
                       THEN [i \in 1..Len(a.live) |->
                                IF a.live[i].id = task.id THEN task ELSE a.live[i]]
                       ELSE Append(a.live, task)]

\* the client notes a deletion it was told of
AckDelete(a, id) ==
    [live |-> SelectSeq(a.live, LAMBDA t : t.id # id), deleted |-> a.deleted \cup {id}]

\* POST /api/tasks
WebAddTask(data) ==
    /\ next_uuid <= MaxTasks
    /\ Len(timers) < MaxTimers
    /\ IF Strip(Get(data, "title", "")) = ""
       THEN /\ web' = WebResponse("add_task", 400, <<>>)
            /\ UNCHANGED <<timers, acked, next_uuid>>
       ELSE \E m \in {MemoryAddTask(LoadExistingData(store_file, next_uuid),
                                    Strip(Get(data, "title", "")),
                                    Strip(Get(data, "description", "")),
                                    Get(data, "priority", "medium"), "pending",
                                    Get(data, "tags", {}), Get(data, "due_date", None))} :
                /\ timers' = ScheduleSave(timers, m)
                /\ next_uuid' = m.next_uuid
                /\ web' = WebResponse("add_task", 201, <<m.tasks[Len(m.tasks)]>>)
                /\ acked' = AckTask(acked, m.tasks[Len(m.tasks)])
    /\ UNCHANGED <<store_file, login_log, sessions, users>>
    /\ UNCHANGED umvars
    /\ UNCHANGED memvars
    /\ UNCHANGED nlpvars

\* PUT /api/tasks/<task_id>
WebUpdateTask(task_id, data) ==
    /\ Len(timers) < MaxTimers
    /\ \E m \in {LoadExistingData(store_file, next_uuid)} :
           IF GetTaskById(m, [int |-> FALSE, v |-> task_id]) = <<>>
           THEN /\ web' = WebResponse("update_task", 404, <<>>)
                /\ UNCHANGED <<timers, acked>>
           ELSE \E u \in {MemoryUpdateFields(m, task_id, data)} :
                    /\ timers' = ScheduleSave(timers, u)
                    /\ web' = WebResponse("update_task", 200,
                                          GetTaskById(u, [int |-> FALSE, v |-> task_id]))
                    /\ acked' = AckTask(acked,
                                        GetTaskById(u, [int |-> FALSE, v |-> task_id])[1])
    /\ UNCHANGED <<store_file, next_uuid, login_log, sessions, users>>
    /\ UNCHANGED umvars
    /\ UNCHANGED memvars
    /\ UNCHANGED nlpvars

\* DELETE /api/tasks/<task_id>
WebDeleteTask(task_id) ==
    /\ Len(timers) < MaxTimers
    /\ \E m \in {LoadExistingData(store_file, next_uuid)} :
           IF GetTaskById(m, [int |-> FALSE, v |-> task_id]) = <<>>
           THEN /\ web' = WebResponse("delete_task", 404, <<>>)
                /\ UNCHANGED <<timers, acked>>
           ELSE /\ timers' = ScheduleSave(timers, MemoryDeleteTask(m, task_id))
                /\ web' = WebResponse("delete_task", 200, <<>>)
                /\ acked' = AckDelete(acked, task_id)
    /\ UNCHANGED <<store_file, next_uuid, login_log, sessions, users>>
    /\ UNCHANGED umvars
    /\ UNCHANGED memvars
    /\ UNCHANGED nlpvars

\* GET /api/tasks
WebGetTasks ==
    /\ \E m \in {LoadExistingData(store_file, next_uuid)} :
           web' = WebResponse("get_tasks", 200,
                              [i \in 1..Len(m.tasks) |-> ProcessedTask(m.tasks[i])])
    /\ UNCHANGED <<store_file, timers, acked, next_uuid, login_log, sessions, users>>
    /\ UNCHANGED umvars
    /\ UNCHANGED memvars
    /\ UNCHANGED nlpvars

\* the save timer of the i-th waiting instance fires: delayed_save writes
\* that instance's task list over the file
DelayedSave(i) ==
    /\ i \in 1..Len(timers)
    /\ store_file' = timers[i]
    /\ timers' = SubSeq(timers, 1, i - 1) \o SubSeq(timers, i + 1, Len(timers))
    /\ UNCHANGED <<web, acked, next_uuid, login_log, sessions, users>>
    /\ UNCHANGED umvars
    /\ UNCHANGED memvars
    /\ UNCHANGED nlpvars

NextWeb ==
    \/ \E data \in CreateBodies : WebAddTask(data)
    \/ \E task_id \in TaskIds, data \in UpdateBodies : WebUpdateTask(task_id, data)
    \/ \E task_id \in TaskIds : WebDeleteTask(task_id)
    \/ WebGetTasks
    \/ \E i \in 1..MaxTimers : DelayedSave(i)

\* the web application starts with no file of the user; its clock is not read
InitWeb == InitCommon /\ today = Date(2026, 11, 4)

\* the task routes of the web application for one user
SpecWeb == InitWeb /\ [][NextWeb]_vars

-----------------------------------------------------------------------------
(* Claims about the web application, checked under SpecWeb                 *)

\* the listing shows the task as the client was sent it
ListedAs(task) ==
    \E j \in 1..Len(web.tasks) :
        /\ web.tasks[j].id = task.id
        /\ web.tasks[j].title = task.title
        /\ web.tasks[j].description = task.description
        /\ web.tasks[j].priority = task.priority

\* C11: read-your-writes across requests: a listing shows every task a
\* successful create or update answered with, with that id, title,
\* description and priority, and no task a successful delete removed,
\* however soon after the change it is asked for.
C11_ReadYourWrites ==
    web.route = "get_tasks" /\ web.status = 200 =>
        /\ \A i \in 1..Len(acked.live) : ListedAs(acked.live[i])
        /\ \A j \in 1..Len(web.tasks) : web.tasks[j].id \notin acked.deleted

-----------------------------------------------------------------------------
(* Claims about the task numbers of commands, checked under SpecAssistant  *)

\* the Command process_command makes of the pending input
Pending == ParseCommand(Strip(user_input), command_patterns, today)

\* the pending input is an update or delete command that names task number N
\* and no stored task has the database id N
NamesNoDatabaseId ==
    /\ Strip(user_input) # ""
    /\ Bind(Pending, LAMBDA p :
           /\ p.exc = ""
           /\ p.v.command_type \in {"update_task", "delete_task"}
           /\ "task_id" \in DOMAIN p.v
           /\ \A i \in 1..Len(tasks) : tasks[i].id # IntToStr(p.v.task_id))

\* C12: the number N of a natural-language update or delete command is a
\* database id and never a position of the list: when no task has the id N
\* the command changes no task.
C12_NumberIsDatabaseId ==
    [][pc = "submitted" /\ pc' = "idle" /\ NamesNoDatabaseId => tasks' = tasks]_vars

-----------------------------------------------------------------------------
(* Accounts (src/user_manager.py) behind the routes /api/auth/register and *)
(* /api/auth/login of the web application, for one client.                 *)

\* how many login attempts a run may make
MaxLogins == 7

\* bcrypt.hashpw without its salt
HashPw(password) == "bcrypt$" \o password

\* bcrypt.checkpw
CheckPw(password, password_hash) == HashPw(password) = password_hash

\* secrets.token_urlsafe: the n-th token drawn
Token(n) == "session-" \o IntToStr(n)

\* the JSON bodies of the register requests of a run
RegisterBodies == {
    [username |-> "alice", email |-> "alice@example.com", password |-> "secret"],
    [username |-> "bob", email |-> "", password |-> "hunter2"]
}

\* the JSON bodies of the login requests of a run
LoginBodies == {
    [username |-> "test", password |-> "test"],
    [username |-> "alice", password |-> "wrong"],
    [username |-> " alice@example.com ", password |-> "secret"],
    [username |-> "", password |-> "test"]
}

\* UserManager.login_user with n tokens drawn before: [success, made], made
\* the session it creates
LoginUser(username, password, table, n) ==
    IF \E u \in table : /\ u.username = username \/ u.email = username
                        /\ CheckPw(password, u.password_hash)
    THEN [success |-> TRUE,
          made |-> {[session_id |-> Token(n + 1),
                     username |-> (CHOOSE u \in table :
                                      u.username = username \/ u.email = username).username]}]
    ELSE [success |-> FALSE, made |-> {}]

\* POST /api/auth/register: a new account is logged in at once
WebRegister(data) ==
    /\ Cardinality(sessions) < MaxLogins
    /\ \E username \in {Strip(data.username)}, email \in {Strip(data.email)},
          password \in {Strip(data.password)} :
           IF \/ username = "" \/ email = "" \/ password = ""
              \/ \E u \in users : u.username = username \/ u.email = email
           THEN UNCHANGED <<users, sessions, cache, drawn>>
           ELSE \E table \in {users \cup {[username |-> username, email |-> email,
                                           password_hash |-> HashPw(password)]}} :
                \E r \in {LoginUser(username, password, table, drawn)} :
                    /\ users' = table
                    /\ sessions' = sessions \cup r.made
                    /\ cache' = cache \cup r.made
                    /\ drawn' = drawn + Cardinality(r.made)
    /\ UNCHANGED <<store_file, timers, web, acked, login_log, next_uuid, calls>>
    /\ UNCHANGED nlpvars
    /\ UNCHANGED memvars

\* POST /api/auth/login: 400 without a username or password, 200 with a
\* session for an account's credentials, 401 otherwise
WebLogin(data) ==
    /\ Len(login_log) < MaxLogins
    /\ \E username \in {Strip(data.username)}, password \in {Strip(data.password)} :
           IF username = "" \/ password = ""
           THEN /\ login_log' = Append(login_log, [body |-> data, status |-> 400])
                /\ UNCHANGED <<sessions, cache, drawn>>
           ELSE \E r \in {LoginUser(username, password, users, drawn)} :
                    /\ login_log' = Append(login_log,
                           [body |-> data, status |-> IF r.success THEN 200 ELSE 401])
                    /\ sessions' = sessions \cup r.made
                    /\ cache' = cache \cup r.made
                    /\ drawn' = drawn + Cardinality(r.made)
    /\ UNCHANGED <<store_file, timers, web, acked, users, next_uuid, calls>>
    /\ UNCHANGED nlpvars
    /\ UNCHANGED memvars

NextLogin ==
    \/ \E data \in RegisterBodies : WebRegister(data)
    \/ \E data \in LoginBodies : WebLogin(data)

\* the accounts of the web application
SpecLogin == InitWeb /\ [][NextLogin]_vars

\* credentials that belong to no account a run can register
InvalidCredentials(data) ==
    /\ Strip(data.username) # "" /\ Strip(data.password) # ""
    /\ \A a \in RegisterBodies :
           ~ /\ Strip(data.username) \in {Strip(a.username), Strip(a.email)}
             /\ Strip(data.password) = Strip(a.password)

\* the number of attempts of the claimed run
RunOfAttempts == 7

\* C13: login is rate limited: of 7 consecutive login attempts with invalid
\* credentials at least one is answered with status 429.
C13_LoginRateLimited ==
    \A k \in 1..Len(login_log) :
        (/\ k + RunOfAttempts - 1 <= Len(login_log)
         /\ \A i \in k..(k + RunOfAttempts - 1) : InvalidCredentials(login_log[i].body))
        => \E i \in k..(k + RunOfAttempts - 1) : login_log[i].status = 429

-----------------------------------------------------------------------------
(* Claims about the order of classification, checked under SpecParse       *)

\* the order of the command types the classifier is to try
CategoryOrder ==
    <<"add_task", "search_tasks", "list_tasks", "update_task", "delete_task", "show_stats">>

\* the case-folded, trimmed copy of the input the patterns are matched on
Folded == Lower(Strip(user_input))

\* the patterns of command type ctype that are found in the input
Found(ctype) ==
    UNION {{command_patterns[t].patterns[k] :
               k \in {i \in 1..Len(command_patterns[t].patterns) :
                         SearchLowered(command_patterns[t].patterns[i], Folded).ok}} :
           t \in {u \in 1..Len(command_patterns) : command_patterns[u].type = ctype}}

\* the places in CategoryOrder of the command types with a pattern found
FoundAt == {i \in 1..Len(CategoryOrder) : Found(CategoryOrder[i]) # {}}

\* a pattern that captures what stands between two quotes; one that
\* captures the rest of the input
IsQuotedPattern(pat) == \E i \in 1..Len(pat) : pat[i] = CapNQ
IsCatchAll(pat) == \E i \in 1..Len(pat) : pat[i] = CapRest

\* the texts that stand between two successive quotes of text
QuotedContents(text) ==
    {SubSeq(text, i + 1, j - 1) : <<i, j>> \in
        {ij \in (1..Len(text)) \X (1..Len(text)) :
            /\ ij[1] + 1 < ij[2]
            /\ At(text, ij[1]) \in QuoteSet /\ At(text, ij[2]) \in QuoteSet
            /\ \A k \in (ij[1] + 1)..(ij[2] - 1) : At(text, k) \notin QuoteSet}}

\* the title of an add_task Command, the query of a search_tasks Command
TitleOrQuery ==
    IF cmd.command_type = "add_task" THEN Get(cmd, "title", None)
    ELSE Get(cmd, "query", None)

KeywordLists == <<
    [type |-> "add_task", words |-> {"add", "create", "new", "make"}],
    [type |-> "search_tasks", words |-> {"search", "find", "look", "show"}],
    [type |-> "list_tasks", words |-> {"list", "all", "tasks"}],
    [type |-> "show_stats", words |-> {"stats", "statistics", "summary"}]
>>

\* the places of the keyword lists with a keyword present in the input
PresentAt ==
    {i \in 1..Len(KeywordLists) : \E w \in KeywordLists[i].words : Contains(Folded, w)}

\* C15: when no pattern is found in the input, the keyword lists add/create/
\* new/make, search/find/look/show, list/all/tasks, stats/statistics/summary
\* are checked in this order and the first list with a keyword present in the
\* text decides the command type, whatever keywords of later lists are
\* present; the type is unknown exactly when no keyword of any list is present.
C15_InferenceInKeywordOrder ==
    Returned /\ FoundAt = {} =>
        /\ PresentAt # {} => cmd.command_type = KeywordLists[Min(PresentAt)].type
        /\ PresentAt = {} <=> cmd.command_type = "unknown"

\* "summary of all" has been classified: no pattern is found in it, keywords
\* of the third and of the fourth list are present, and it is a list_tasks
C15_Witness ==
    /\ Returned
    /\ user_input = "summary of all"
    /\ FoundAt = {}
    /\ PresentAt = {3, 4}
    /\ cmd.command_type = "list_tasks"

-----------------------------------------------------------------------------
(* Claims about due dates, checked under SpecDue                           *)

\* the due date of a Command, None when it has none
DueOf(c) == Get(c, "due_date", None)

\* the number of the rule a phrase of RulePhrases belongs to
RuleOfPhrase(phrase) == CHOOSE i \in 1..Len(RulePhrases) : phrase \in RulePhrases[i]

\* the pairs of phrases of two different rules
PhrasePairs ==
    {pq \in (UNION {RulePhrases[i] : i \in 1..Len(RulePhrases)})
            \X (UNION {RulePhrases[i] : i \in 1..Len(RulePhrases)}) :
        RuleOfPhrase(pq[1]) # RuleOfPhrase(pq[2])}

\* of two phrases the one of the lower-numbered rule
LowerRuled(p, q) == IF RuleOfPhrase(p) < RuleOfPhrase(q) THEN p ELSE q

\* the due date of the input that holds the phrase alone, parsed on the anchor
AloneDue(phrase) == DueOf(ParseCommand(WithPhrase(phrase), command_patterns, anchor).v)

\* the weekday of the anchor and the number of a weekday name, Monday = 0
AnchorWeekday == Weekday(anchor)
DayNumber(d) == d - 1

\* C16: due-date extraction is a chain in which the first rule that matches
\* wins: a text with phrases of two different rules gets the due date the
\* lower-numbered rule gives alone, and never one of a later rule; when
\* "this <weekday>" matches and the weekday is before the anchor's, there is
\* no due date even if "in 3 days" or a numeric date follows.
C16_FirstRuleWins ==
    Returned =>
        \A pq \in PhrasePairs :
            user_input = WithPhrase(pq[1] \o " " \o pq[2]) =>
                /\ DueOf(cmd) = AloneDue(LowerRuled(pq[1], pq[2]))
                /\ (/\ "this monday" \in {pq[1], pq[2]}
                    /\ AnchorWeekday > 0
                    /\ RuleOfPhrase(LowerRuled(pq[1], pq[2])) = 7)
                   => ~ Has("due_date")

\* "this monday in 3 days" has been parsed on a Wednesday: no due date
C16_Witness ==
    /\ Returned
    /\ user_input = WithPhrase("this monday in 3 days")
    /\ AnchorWeekday = 2
    /\ ~ Has("due_date")
    /\ AloneDue("in 3 days") # None

\* C17: "next D" is a date on weekday D, 1 to 7 days after the anchor; it is
\* never the anchor itself, and it is 7 days later when the anchor is a D.
C17_NextWeekdayAhead ==
    Returned =>
        \A d \in 1..Len(DayNames) :
            user_input = WithPhrase("next " \o DayNames[d]) =>
                \E n \in 1..7 :
                    /\ DueOf(cmd) = Strftime(AddDays(anchor, n).v)
                    /\ Weekday(AddDays(anchor, n).v) = DayNumber(d)
                    /\ AnchorWeekday = DayNumber(d) => n = 7

\* "next wednesday" has been parsed on Wednesday 2026-11-04: a week later
C17_Witness ==
    /\ Returned
    /\ user_input = WithPhrase("next wednesday")
    /\ anchor = Date(2026, 11, 4)
    /\ AnchorWeekday = 2
    /\ DueOf(cmd) = "2026-11-11"

\* the fields of a Command that repeat the words of the input
EchoFields == {"raw_input", "title"}

\* two Commands differ in a field that does not just repeat the input
Distinguishable(a, b) ==
    \E f \in (DOMAIN a \cup DOMAIN b) \ EchoFields :
        \/ f \notin DOMAIN a \cap DOMAIN b
        \/ a[f] # b[f]

\* the Command of the input without any date phrase, parsed on the anchor
NoPhraseCommand == ParseCommand(DuePrefix, command_patterns, anchor).v

\* C18: "this D" is the date of weekday D in the Monday-to-Sunday week of
\* the anchor when D is the anchor's weekday or later, 0 to 6 days ahead;
\* when D is earlier in the week there is no due date, and the Command can
\* then be told from the Command of an input without any date phrase.
C18_ThisWeekdayOrMarkedAbsent ==
    Returned =>
        \A d \in 1..Len(DayNames) :
            user_input = WithPhrase("this " \o DayNames[d]) =>
                IF DayNumber(d) >= AnchorWeekday
                THEN DueOf(cmd) = Strftime(AddDays(anchor, DayNumber(d) - AnchorWeekday).v)
                ELSE /\ ~ Has("due_date")
                     /\ Distinguishable(cmd, NoPhraseCommand)

\* the last day of the month of a date, the first day of the month after
\* it and of the month before it
LastOfMonth(dt) == Date(dt.y, dt.m, DaysInMonth(dt.y, dt.m))
FirstOfFollowing(dt) == IF dt.m = 12 THEN Date(dt.y + 1, 1, 1) ELSE Date(dt.y, dt.m + 1, 1)
FirstOfPrevious(dt) == IF dt.m = 1 THEN Date(dt.y - 1, 12, 1) ELSE Date(dt.y, dt.m - 1, 1)

\* C19: "this month" and "end of month" are the last day of the anchor's
\* month, "next month" the first day of the following month, "last month"
\* the first day of the previous month, "end of year" December 31 of the
\* anchor's year, for anchors in January and December and on last days too.
C19_MonthAndYearPhrases ==
    Returned =>
        /\ user_input \in {WithPhrase("this month"), WithPhrase("end of month")}
              => DueOf(cmd) = Strftime(LastOfMonth(anchor))
        /\ user_input = WithPhrase("next month")
              => DueOf(cmd) = Strftime(FirstOfFollowing(anchor))
        /\ user_input = WithPhrase("last month")
              => DueOf(cmd) = Strftime(FirstOfPrevious(anchor))
        /\ user_input = WithPhrase("end of year")
              => DueOf(cmd) = Strftime(Date(anchor.y, 12, 31))

\* "next month" has been parsed on 2026-12-31: the first of January 2027
C19_Witness ==
    /\ Returned
    /\ user_input = WithPhrase("next month")
    /\ anchor = Date(2026, 12, 31)
    /\ DueOf(cmd) = "2027-01-01"

\* the date n calendar months after dt: the year advanced at each passage
\* from December to January, the day kept, or the last of a shorter month
MonthsAfter(dt, n) ==
    LET y == dt.y + (dt.m + n - 1) \div 12
        m == ((dt.m + n - 1) % 12) + 1
    IN  Date(y, m, IF dt.d > DaysInMonth(y, m) THEN DaysInMonth(y, m) ELSE dt.d)

\* a call has returned or raised
Finished == pc = "idle" /\ result.exc # "none"

\* C20: "in N days" is the anchor plus N days, "in N weeks" the anchor plus
\* 7N days, "in N months" the date N calendar months after the anchor, for
\* every anchor date and every N >= 0.
C20_InNUnits ==
    Finished =>
        \A n \in Counts :
            /\ user_input = WithPhrase("in " \o IntToStr(n) \o " days")
                  => result.exc = "" /\ DueOf(cmd) = Strftime(AddDays(anchor, n).v)
            /\ user_input = WithPhrase("in " \o IntToStr(n) \o " weeks")
                  => result.exc = "" /\ DueOf(cmd) = Strftime(AddDays(anchor, 7 * n).v)
            /\ user_input = WithPhrase("in " \o IntToStr(n) \o " months")
                  => result.exc = "" /\ DueOf(cmd) = Strftime(MonthsAfter(anchor, n))

\* the maximal runs of letters, digits and underscores of s
WholeWordsOf(s) ==
    {SubSeq(s, i, j) : <<i, j>> \in
        {p \in (1..Len(s)) \X (1..Len(s)) :
            /\ p[1] <= p[2]
            /\ \A k \in p[1]..p[2] : At(s, k) \in WordSet
            /\ p[1] = 1 \/ At(s, p[1] - 1) \notin WordSet
            /\ p[2] = Len(s) \/ At(s, p[2] + 1) \notin WordSet}}

\* the whole words of the pending input, in lower case
WholeWords == WholeWordsOf(Folded)

\* the keyword sets of the spec, high, medium, low
PriorityKeywords == <<
    [name |-> "high",
     words |-> {"urgent", "critical", "asap", "emergency", "high", "important", "priority"}],
    [name |-> "medium", words |-> {"medium", "normal", "moderate"}],
    [name |-> "low", words |-> {"low", "minor", "optional"}]
>>

\* the sets that have a whole word in the input
PriorityHits == {k \in 1..Len(PriorityKeywords) : WholeWords \cap PriorityKeywords[k].words # {}}

FieldKeywords == <<
    [field |-> "priority", words |-> {"priority", "important"}],
    [field |-> "title", words |-> {"title", "name"}],
    [field |-> "description", words |-> {"description", "desc"}]
>>

\* the fields a keyword of which occurs somewhere in the input
FieldHits ==
    {k \in 1..Len(FieldKeywords) : \E w \in FieldKeywords[k].words : Contains(Folded, w)}

\* an update_task Command that a pattern produced has been returned
UpdateByPattern == Returned /\ via = "pattern" /\ cmd.command_type = "update_task"

\* C22: the field of an update_task command produced by a pattern is chosen
\* by scanning the whole input in the order priority/important, title/name,
\* description/desc and is "status" when none occurs; a status value is one
\* of completed, in_progress, pending and a priority value one of high,
\* medium, low, whatever word the user wrote.
C22_UpdateFieldAndValue ==
    UpdateByPattern =>
        /\ cmd.field = IF FieldHits = {} THEN "status"
                       ELSE FieldKeywords[Min(FieldHits)].field
        /\ cmd.field = "status" => cmd.value \in {"completed", "in_progress", "pending"}
        /\ cmd.field = "priority" => cmd.value \in {"high", "medium", "low"}

\* an update that names the priority and the title: the field is priority
C22_Witness ==
    /\ UpdateByPattern
    /\ user_input = "set task 1 to urgent priority title"
    /\ FieldHits = {1, 2}
    /\ cmd.field = "priority"
    /\ cmd.value = "high"

\* the stop words of the spec for titles and for queries
TitleStopWords == {"add", "create", "new", "task", "a", "an"}
QueryStopWords == {"find", "search", "look", "for", "show", "me", "tasks", "about"}

\* where the quoted substrings of text begin
QuoteStarts(text) ==
    {i \in 1..Len(text) :
        /\ At(text, i) \in QuoteSet
        /\ \E j \in (i + 2)..Len(text) :
              /\ At(text, j) \in QuoteSet
              /\ \A k \in (i + 1)..(j - 1) : At(text, k) \notin QuoteSet}

\* the content of the first quoted substring of text
FirstQuoted(text) ==
    LET i == Min(QuoteStarts(text))
        j == Min({k \in (i + 2)..Len(text) : At(text, k) \in QuoteSet})
    IN  SubSeq(text, i + 1, j - 1)

\* the words of text outside the stop list
Remaining(text, stop) == SelectSeq(Words(text), LAMBDA w : Lower(w) \notin stop)

\* the first quoted substring if there is one, else the first three words
\* that remain
DerivedText(text, stop) ==
    IF QuoteStarts(text) # {} THEN FirstQuoted(text)
    ELSE LET rest == Remaining(text, stop)
         IN  Join(SubSeq(rest, 1, Min({3, Len(rest)})), " ")

\* an add_task or search_tasks Command that inference produced has been returned
InferredWithText ==
    /\ Returned
    /\ via = "inference"
    /\ cmd.command_type \in {"add_task", "search_tasks"}

\* C23: when the category comes from keyword inference the title and the
\* query are derived the same way, the content of the first quoted
\* substring if there is one and otherwise the first three words that
\* remain without the stop words of the respective list; without a quoted
\* substring the title or query never has more than three words.
C23_InferredTitleAndQuery ==
    InferredWithText =>
        LET text == Strip(user_input) IN
        /\ cmd.command_type = "add_task" => cmd.title = DerivedText(text, TitleStopWords)
        /\ cmd.command_type = "search_tasks" => cmd.query = DerivedText(text, QueryStopWords)
        /\ QuoteStarts(text) = {} => Len(Words(TitleOrQuery)) <= 3

\* the verbs of the update patterns that capture a task number only
IdOnlyVerbs == {"complete", "finish"}

\* C24: "complete task N" and "finish task N" give an update_task command
\* with task_id N, field "status" and value "completed".
C24_CompleteTaskCompletes ==
    Returned =>
        \A verb \in IdOnlyVerbs : \A n \in TaskNums :
            user_input = verb \o " task " \o IntToStr(n) =>
                /\ cmd.command_type = "update_task"
                /\ HasValue(cmd, "task_id", n)
                /\ HasValue(cmd, "field", "status")
                /\ HasValue(cmd, "value", "completed")

-----------------------------------------------------------------------------
(* The user manager: register_user calls of two threads on one database,   *)
(* logins, logouts and account deletions.  SQLite lets one connection      *)
(* write at a time; a session lives 30 days, longer than a run.            *)

\* how many sessions a run may create
MaxSessions == 2

\* the arguments of the register_user calls of a run: two accounts, a third
\* with the email of the first and a fourth with the username of the first
AccountBodies == RegisterBodies \cup {
    [username |-> "alicia", email |-> "alice@example.com", password |-> "pw"],
    [username |-> "alice", email |-> "al@example.com", password |-> "pw"]
}

\* the row register_user inserts
UserRow(data) ==
    [username |-> data.username, email |-> data.email, password_hash |-> HashPw(data.password)]

\* SELECT id FROM users WHERE username = ? OR email = ?
UserExists(table, username, email) ==
    \E u \in table : u.username = username \/ u.email = email

\* a users table without its UNIQUE constraints
NoUniqueConstraint(table, row) == FALSE

\* username TEXT UNIQUE, email TEXT UNIQUE: the insert of row is refused
UniqueViolation(table, row) ==
    \E u \in table : u.username = row.username \/ u.email = row.email

\* what register_user returns
Returns(data, success, error) ==
    [at |-> "returned", data |-> data, success |-> success, error |-> error]

\* a connection holds the write lock: its insert is not committed yet
Writer(t) == calls[t].at = "inserted"

\* register_user up to its SELECT: the call returns when the name or the
\* email is found
RegisterSelect(t, data) ==
    /\ calls[t].at \in {"idle", "returned"}
    /\ calls' = [calls EXCEPT ![t] =
           IF UserExists(users, data.username, data.email)
           THEN Returns(data, FALSE, "Username or email already exists")
           ELSE [at |-> "checked", data |-> data]]
    /\ UNCHANGED <<store_file, timers, web, acked, login_log, sessions, users, cache, drawn,
                   next_uuid>>
    /\ UNCHANGED nlpvars
    /\ UNCHANGED memvars

\* the INSERT of register_user: refused by a UNIQUE constraint, the call
\* returns the error of the exception
RegisterInsert(t) ==
    /\ calls[t].at = "checked"
    /\ \A o \in Threads : ~ Writer(o)
    /\ calls' = [calls EXCEPT ![t] =
           IF UniqueViolation(users, UserRow(calls[t].data))
           THEN Returns(calls[t].data, FALSE, "UNIQUE constraint failed")
           ELSE [at |-> "inserted", data |-> calls[t].data]]
    /\ UNCHANGED <<store_file, timers, web, acked, login_log, sessions, users, cache, drawn,
                   next_uuid>>
    /\ UNCHANGED nlpvars
    /\ UNCHANGED memvars

\* the INSERT gives up waiting for the connection that holds the write lock
RegisterLocked(t) ==
    /\ calls[t].at = "checked"
    /\ \E o \in Threads : Writer(o)
    /\ calls' = [calls EXCEPT ![t] = Returns(calls[t].data, FALSE, "database is locked")]
    /\ UNCHANGED <<store_file, timers, web, acked, login_log, sessions, users, cache, drawn,
                   next_uuid>>
    /\ UNCHANGED nlpvars
    /\ UNCHANGED memvars

\* conn.commit() and the return of register_user
RegisterCommit(t) ==
    /\ Writer(t)
    /\ users' = users \cup {UserRow(calls[t].data)}
    /\ calls' = [calls EXCEPT ![t] = Returns(calls[t].data, TRUE, "")]
    /\ UNCHANGED <<store_file, timers, web, acked, login_log, sessions, cache, drawn, next_uuid>>
    /\ UNCHANGED nlpvars
    /\ UNCHANGED memvars

\* login_user with the credentials of an account: a session in the table
\* and in memory
LoginUserCall(data) ==
    /\ drawn < MaxSessions
    /\ \A o \in Threads : ~ Writer(o)
    /\ \E r \in {LoginUser(data.username, data.password, users, drawn)} :
           /\ r.success
           /\ sessions' = sessions \cup r.made
           /\ cache' = cache \cup r.made
           /\ drawn' = drawn + 1
    /\ UNCHANGED <<store_file, timers, web, acked, login_log, users, calls, next_uuid>>
    /\ UNCHANGED nlpvars
    /\ UNCHANGED memvars

\* the None of get_user_from_session, as a value sessions compare with
NoUser == [username |-> None]

\* UserManager.get_user_from_session: the session kept in memory, else the
\* row of the sessions table joined with its user, else None
GetUserFromSession(session_id, kept, table, accounts) ==
    IF \E s \in kept : s.session_id = session_id
    THEN CHOOSE s \in kept : s.session_id = session_id
    ELSE IF \E s \in table : /\ s.session_id = session_id
                             /\ \E u \in accounts : u.username = s.username
    THEN CHOOSE s \in table : s.session_id = session_id
    ELSE NoUser

\* the session ids drawn so far
SessionIds == {Token(n) : n \in 1..drawn}

\* UserManager.logout_user on the two stores
LogoutUser(session_id, store) == {s \in store : s.session_id # session_id}

\* POST /api/auth/logout with a session that is accepted
WebLogout(session_id) ==
    /\ \A o \in Threads : ~ Writer(o)
    /\ GetUserFromSession(session_id, cache, sessions, users) # NoUser
    /\ cache' = LogoutUser(session_id, cache)
    /\ sessions' = LogoutUser(session_id, sessions)
    /\ UNCHANGED <<store_file, timers, web, acked, login_log, users, calls, drawn, next_uuid>>
    /\ UNCHANGED nlpvars
    /\ UNCHANGED memvars

\* DELETE /api/auth/delete-account with a session that is accepted:
\* delete_user removes the rows of the user of the session and the sessions
\* of that user from the tables, logout_user the session of the request.  A
\* session kept in memory whose row is gone names a user id that exists no
\* more: delete_user then finds no row to delete.
WebDeleteAccount(session_id) ==
    /\ \A o \in Threads : ~ Writer(o)
    /\ \E user \in {GetUserFromSession(session_id, cache, sessions, users)} :
           /\ user # NoUser
           /\ IF user \in sessions
              THEN /\ users' = {u \in users : u.username # user.username}
                   /\ sessions' = {s \in sessions : s.username # user.username}
              ELSE UNCHANGED <<users, sessions>>
           /\ cache' = LogoutUser(session_id, cache)
    /\ UNCHANGED <<store_file, timers, web, acked, login_log, calls, drawn, next_uuid>>
    /\ UNCHANGED nlpvars
    /\ UNCHANGED memvars

NextAccounts ==
    \/ \E t \in Threads, data \in AccountBodies : RegisterSelect(t, data)
    \/ \E t \in Threads : RegisterInsert(t)
    \/ \E t \in Threads : RegisterLocked(t)
    \/ \E t \in Threads : RegisterCommit(t)
    \/ \E data \in AccountBodies : LoginUserCall(data)
    \/ \E session_id \in SessionIds : WebLogout(session_id)
    \/ \E session_id \in SessionIds : WebDeleteAccount(session_id)

\* the user manager under concurrent registrations
SpecAccounts == InitWeb /\ [][NextAccounts]_vars

\* C25: once delete_user has deleted user u, get_user_from_session returns
\* no user for every session created for u, the sessions kept in memory and
\* the sessions other than the one of the delete-account request included.
C25_DeletedUserHasNoSession ==
    [][\A u \in users \ users' :
          \A s \in cache \cup sessions :
              s.username = u.username =>
                  GetUserFromSession(s.session_id, cache', sessions', users') = NoUser]_vars

\* no two stored users share a username and no two share an email
UniqueUsers(table) ==
    \A u \in table : \A v \in table :
        u # v => u.username # v.username /\ u.email # v.email

\* the register_user call of thread t returns in this step
RegisterReturns(t) == calls'[t].at = "returned" /\ calls'[t] # calls[t]

\* C30: after any sequence of register_user calls, concurrent ones
\* included, no two stored users share a username and no two share an
\* email; a call whose username or email is taken returns success = false
\* with an error and leaves the users table and the sessions table as they
\* were.
C30_RegisterKeepsUsersUnique ==
    [][/\ UniqueUsers(users')
       /\ \A t \in Threads :
              (/\ RegisterReturns(t)
               /\ UserExists(users, calls'[t].data.username, calls'[t].data.email))
              => /\ calls'[t].success = FALSE
                 /\ calls'[t].error # ""
                 /\ users' = users
                 /\ sessions' = sessions]_vars

\* two threads have registered the same username at the same time: one has
\* succeeded, the insert of the other has been refused
C30_Witness ==
    \E t \in Threads : \E o \in Threads \ {t} :
        /\ calls[t].at = "returned" /\ calls[o].at = "returned"
        /\ calls[t].data.username = calls[o].data.username
        /\ calls[t].success
        /\ ~ calls[o].success
        /\ calls[o].error = "UNIQUE constraint failed"
        /\ UserRow(calls[t].data) \in users

-----------------------------------------------------------------------------
(* One VectorMemory instance that lives on, as the one of the command-line  *)
(* assistant: its calls run under the instance lock, its save timer fires   *)
(* two seconds after the last call that scheduled it.                       *)

\* how many add, update, complete and delete calls a run may make
MaxMutations == 3
\* how many callbacks of cancelled timers may wait for the lock at a time
MaxLate == 1

\* the text add_task and _rebuild_index embed for a task
TaskText(task) == task.title \o " " \o task.description \o " " \o Join(task.tags, " ")

\* the task dictionaries of self.tasks, in list order
Listed(m) == [i \in 1..Len(m.tasks) |-> m.objs[m.tasks[i]]]

\* _schedule_save without a new timer
CancelOnly(m, escaped) ==
    [m EXCEPT !.save_timer = "none",
              !.late = IF m.save_timer = "pending" /\ escaped THEN @ + 1 ELSE @]

\* VectorMemory._schedule_save: the pending timer is cancelled and a new one
\* started; escaped says that the callback of the old timer had begun to
\* wait for the lock, where cancel() comes too late
VmScheduleSave(m, escaped) ==
    [m EXCEPT !.save_timer = "pending",
              !.late = IF m.save_timer = "pending" /\ escaped THEN @ + 1 ELSE @]

\* VectorMemory.add_task
VmAddTask(m, title, description, priority, status, tags, due_date, escaped) ==
    LET o == Len(m.objs) + 1
        task == [id |-> Uuid(o), title |-> title, description |-> description,
                 priority |-> priority, status |-> status, tags |-> tags,
                 due_date |-> due_date, completed |-> FALSE]
    IN  VmScheduleSave([m EXCEPT !.objs = Append(@, task),
                                 !.index = Append(@, TaskText(task)),
                                 !.tasks = Append(@, o),
                                 !.tasks_by_id = (task.id :> o) @@ @,
                                 !.dirty = TRUE], escaped)

\* VectorMemory._rebuild_index
VmRebuildIndex(m) == [m EXCEPT !.index = [i \in 1..Len(m.tasks) |-> TaskText(Listed(m)[i])]]

\* VectorMemory._recompute_task_embedding: the index is rebuilt when a task
\* of the list carries task_id as its 'id'
VmRecomputeTaskEmbedding(m, task_id) ==
    IF /\ task_id \in DOMAIN m.tasks_by_id
       /\ \E i \in 1..Len(m.tasks) : Listed(m)[i].id = task_id
    THEN VmRebuildIndex(m)
    ELSE m

\* for key, value in kwargs.items(): if key in task: task[key] = value
SetKeys(task, kwargs) ==
    [f \in DOMAIN task |-> IF f \in DOMAIN kwargs THEN kwargs[f] ELSE task[f]]

\* VectorMemory.update_task for a task_id that get_task_by_id finds
VmUpdateTask(m, task_id, kwargs, escaped) ==
    LET o == m.tasks_by_id[task_id]
        set == [m EXCEPT !.objs[o] = SetKeys(@, kwargs)]
        embedded == IF DOMAIN kwargs \cap {"title", "description", "tags"} # {}
                    THEN VmRecomputeTaskEmbedding(set, task_id)
                    ELSE set
    IN  VmScheduleSave([embedded EXCEPT !.dirty = TRUE], escaped)

\* VectorMemory.delete_task for a task_id that get_task_by_id finds
VmDeleteTask(m, task_id, escaped) ==
    LET rest == [m EXCEPT !.tasks = SelectSeq(@, LAMBDA o : m.objs[o].id # task_id),
                          !.tasks_by_id = [k \in DOMAIN @ \ {task_id} |-> @[k]]]
    IN  VmScheduleSave([VmRebuildIndex(rest) EXCEPT !.dirty = TRUE], escaped)

\* VectorMemory.complete_task for a task_id that get_task_by_id finds
VmCompleteTask(m, task_id, escaped) ==
    VmScheduleSave([m EXCEPT !.objs[m.tasks_by_id[task_id]].completed = TRUE,
                             !.dirty = TRUE], escaped)

\* VectorMemory._save_data: what goes into the two files
VmSaveData(m) == [tasks |-> Listed(m), index |-> m.index, written |-> TRUE]

\* the keyword arguments of the update_task calls of a run: a status, the
\* completed flag, the id of the first task, a title, a key no task has
UpdateKwargs == {
    "status" :> "completed",
    "completed" :> TRUE,
    "id" :> Uuid(1),
    "title" :> "renamed",
    "owner" :> "eve"
}

\* a mutating call may run, with or without a late callback of the old timer
MayMutate(escaped) ==
    /\ memory.alive
    /\ mutations < MaxMutations
    /\ escaped => memory.save_timer = "pending" /\ memory.late < MaxLate
    /\ mutations' = mutations + 1
    /\ UNCHANGED disk

\* a call of add_task
Add(title, escaped) ==
    /\ MayMutate(escaped)
    /\ Len(memory.tasks) < MaxTasks
    /\ memory' = VmAddTask(memory, title, "", "medium", "pending", <<>>, None, escaped)
    /\ UNCHANGED <<store_file, timers, web, acked, login_log, sessions, users, next_uuid>>
    /\ UNCHANGED <<umvars, nlpvars>>

\* a call of update_task
UpdateTask(task_id, kwargs, escaped) ==
    /\ MayMutate(escaped)
    /\ task_id \in DOMAIN memory.tasks_by_id
    /\ memory' = VmUpdateTask(memory, task_id, kwargs, escaped)
    /\ UNCHANGED <<store_file, timers, web, acked, login_log, sessions, users, next_uuid>>
    /\ UNCHANGED <<umvars, nlpvars>>

\* a call of complete_task
CompleteTask(task_id, escaped) ==
    /\ MayMutate(escaped)
    /\ task_id \in DOMAIN memory.tasks_by_id
    /\ memory' = VmCompleteTask(memory, task_id, escaped)
    /\ UNCHANGED <<store_file, timers, web, acked, login_log, sessions, users, next_uuid>>
    /\ UNCHANGED <<umvars, nlpvars>>

\* a call of delete_task
DeleteTask(task_id, escaped) ==
    /\ MayMutate(escaped)
    /\ task_id \in DOMAIN memory.tasks_by_id
    /\ memory' = VmDeleteTask(memory, task_id, escaped)
    /\ UNCHANGED <<store_file, timers, web, acked, login_log, sessions, users, next_uuid>>
    /\ UNCHANGED <<umvars, nlpvars>>

\* delayed_save: the data is saved when the instance is dirty
SaveIfDirty ==
    /\ disk' = IF memory.dirty THEN VmSaveData(memory) ELSE disk
    /\ UNCHANGED mutations
    /\ UNCHANGED <<store_file, timers, web, acked, login_log, sessions, users, next_uuid>>
    /\ UNCHANGED <<umvars, nlpvars>>

\* the save timer fires
TimerFires ==
    /\ memory.save_timer = "pending"
    /\ memory' = [memory EXCEPT !.save_timer = "fired", !.dirty = FALSE]
    /\ SaveIfDirty

\* the callback of a timer that was cancelled too late gets the lock
LateCallback ==
    /\ memory.late > 0
    /\ memory' = [memory EXCEPT !.late = @ - 1, !.dirty = FALSE]
    /\ SaveIfDirty

\* VectorMemory.__del__, once no timer thread refers to the instance
Del ==
    /\ memory.alive
    /\ memory.save_timer # "pending" /\ memory.late = 0
    /\ memory' = [memory EXCEPT !.alive = FALSE]
    /\ SaveIfDirty

\* the task ids a call may name
MemoryKeys == {Uuid(n) : n \in 1..MaxMutations}

NextMemory ==
    \/ \E title \in {"pay rent"}, escaped \in BOOLEAN : Add(title, escaped)
    \/ \E task_id \in MemoryKeys, kwargs \in UpdateKwargs, escaped \in BOOLEAN :
           UpdateTask(task_id, kwargs, escaped)
    \/ \E task_id \in MemoryKeys, escaped \in BOOLEAN : CompleteTask(task_id, escaped)
    \/ \E task_id \in MemoryKeys, escaped \in BOOLEAN : DeleteTask(task_id, escaped)
    \/ TimerFires
    \/ LateCallback
    \/ Del

\* one memory instance
SpecMemory == InitWeb /\ [][NextMemory]_vars

\* one memory instance whose timers fire as long as the process runs
SpecMemoryLive ==
    SpecMemory /\ WF_vars(TimerFires) /\ WF_vars(LateCallback)

\* every key of tasks_by_id maps to a task of the list whose 'id' is the key
KeysNameListedTasks(m) ==
    \A k \in DOMAIN m.tasks_by_id :
        /\ \E i \in 1..Len(m.tasks) : m.tasks[i] = m.tasks_by_id[k]
        /\ m.objs[m.tasks_by_id[k]].id = k

\* every task of the list is found under its own 'id'
ListedTasksAreKeyed(m) ==
    \A i \in 1..Len(m.tasks) :
        /\ Listed(m)[i].id \in DOMAIN m.tasks_by_id
        /\ m.tasks_by_id[Listed(m)[i].id] = m.tasks[i]

\* no two tasks of the list have the same 'id'
ListedIdsUnique(m) ==
    \A i \in 1..Len(m.tasks) : \A j \in 1..Len(m.tasks) :
        i # j => Listed(m)[i].id # Listed(m)[j].id

\* the index holds the embedding of each task of the list, in list order
IndexFollowsList(m) == m.index = [i \in 1..Len(m.tasks) |-> TaskText(Listed(m)[i])]

\* C26: after every sequence of add_task, update_task with any keyword
\* arguments, complete_task and delete_task on one instance, the lookup
\* table and the task list describe the same tasks, the ids are unique and
\* the index holds one embedding per listed task in list order.
C26_LookupAndListAgree ==
    /\ KeysNameListedTasks(memory)
    /\ ListedTasksAreKeyed(memory)
    /\ ListedIdsUnique(memory)
    /\ IndexFollowsList(memory)

\* C27: when two memory instances of one user each add a task, the store
\* holds both tasks once all pending saves have run: a save of one instance
\* never erases a task another instance added and saved.
C27_NoLostTasks ==
    timers = <<>> =>
        \A i \in 1..Len(acked.live) :
            \E j \in 1..Len(store_file) : store_file[j].id = acked.live[i].id

\* C28: in every reachable state of a task store the completed flag of a
\* task is true exactly when its status is "completed".
C28_CompletedAgreesWithStatus ==
    \A i \in 1..Len(memory.tasks) :
        Listed(memory)[i].completed <=> Listed(memory)[i].status = "completed"

\* the files hold the tasks and the index of the instance
Saved == disk.written /\ disk.tasks = Listed(memory) /\ disk.index = memory.index

====
